---- MODULE Spec2Model ----
(***************************************************************************)
(* FocusMind signal-processing core: the focus score fusion engine, the   *)
(* blink state machine, the gaze smoother and classifier, the calibration *)
(* procedure and the tracker's per-frame loop.                            *)
(*                                                                        *)
(* Number representation (fixed point, all integers):                     *)
(*   sub-scores, ratios, EAR, gaze coordinates : 1/10000   (Unit = 1.0)   *)
(*   focus scores (prev_score, results)        : 1/100 of a point         *)
(*   raw_score                                 : 1/10000 of a point       *)
(*   smoothed score before rounding            : 1/1000000 of a point     *)
(*   times and durations                       : seconds                  *)
(*   blink rate                                : 1/100 blink per minute   *)
(*   angles                                    : degrees                  *)
(***************************************************************************)
EXTENDS Integers, Sequences, FiniteSets, TLC

VARIABLES
    pc,                   \* position of the modelled caller / loop
    \* ---- fusion engine (FocusScore.py) and FaceFocusTracker score state
    current_focus_score,  \* FaceFocusTracker.current_focus_score
    prev_score,           \* prev_score argument of the last compute_focus_score call
    feat,                 \* the other arguments of the last compute_focus_score call
    last_raw,             \* raw_score computed by the last call
    last_smoothed,        \* focus_score after the blend of the last call, before the bonus
    start_score,          \* prev_score of the first call of a run
    bonus_applied,        \* the sustained bonus has been added in some call of the run
    calls,                \* number of compute_focus_score calls of the run
    \* ---- blink state machine (face_track.py) and its clock
    blink_state,          \* FaceFocusTracker.blink_state
    now,                  \* time.perf_counter() as last read
    blink_detected,       \* blink_detected returned by the last update_blink_metrics
    last_openness,        \* eyes_open_ratio passed to the last update_blink_metrics
    feeds,                \* number of update_blink_metrics calls so far
    closed_episode,       \* a value < 0.20 was fed since the last value > 0.25
    ever_closed,          \* a value < 0.20 was fed at some point
    expect_signal,        \* the last value fed was > 0.25 and ended a closed episode
    expected_blinks,      \* number of values fed so far that ended a closed episode
    blink_before,         \* blink_state as the last update_blink_metrics call found it
    \* ---- gaze smoother (ema_smoother.py)
    smoother_alpha,       \* GazeSmoother.alpha, in tenths
    smoother_state,       \* GazeSmoother.state: <<>> for None, else <<dx, dy>>
    sm_old,               \* GazeSmoother.state before the last update
    sm_sample,            \* vec passed to the last update
    updates,              \* number of GazeSmoother.update calls so far
    \* ---- gaze classification and calibration (face_focus_tracker.py, calibration.py)
    cfg,                  \* FaceFocusTracker.cfg: the calibration profile, NoCfg for None
    gaze_label,           \* FaceFocusTracker.gaze_label
    last_vec,             \* vec passed to the last gaze_vector_to_label
    horiz_vals,           \* calibrate_user: horiz_vals
    vert_vals,            \* calibrate_user: vert_vals
    pose,                 \* calibrate_user: number of prompts already left
    calib_status,         \* calibrate_user: "idle", "sampling", "done", "raised", "aborted"
    median_pose,          \* calibrate_user: the prompt (1..5) each recorded median came from
    stream_ended,         \* calibrate_user: some prompt was left because cap.read() failed
    \* ---- FaceFocusTracker: the per-frame loop (face_focus_tracker.py)
    metrics,              \* the dict process_frame returned for the current frame
    session_blink_count,  \* FaceFocusTracker.blink_count
    last_update_time,     \* FaceFocusTracker.last_update_time (time.time() of the last send)
    last_quote_threshold, \* FaceFocusTracker.last_quote_threshold
    last_sent,            \* focus score of the last send_focus_update, None before the first
    quoted,               \* threshold passed to trigger_motivational_quote in the last frame, 0 if none
    frames,               \* frames read so far
    frame_blink_updates,  \* update_blink_metrics calls on blink_state for the current frame
    rate_time,            \* current_time of the last blink-rate computation, None before the first
    rate_elapsed,         \* time_elapsed of the last blink-rate computation
    rate_count_in,        \* blink_count when the last blink-rate computation began
    rate_reset_in,        \* last_reset_time when the last blink-rate computation began
    blinks_since_reset,   \* blinks signalled since last_reset_time last changed
    update_interval,      \* FaceFocusTracker.update_interval, seconds
    prev_update_time,     \* last_update_time before the last send
    sends,                \* calls of send_focus_update so far
    sent_now,             \* the last compute_and_update_focus_score called send_focus_update
    frame_start,          \* the frame being handled and the state process_frame found
    \* ---- initialize_camera and the calibration file
    calibration_file,     \* gaze_calibration_parameters.json: missing, malformed or a profile
    force_calibrate,      \* FaceFocusTracker.force_calibrate
    init_outcome,         \* "none", "ok", "no_source", "calibration_raised"
    \* ---- session statistics (FocusScore.generate_session_stats)
    focus_data,           \* the history handed to generate_session_stats
    stats,                \* what generate_session_stats returned
    \* ---- head pose wrap (face_track.estimate_head_orientation)
    euler_in,             \* <<x, y>> of rotation_matrix_to_euler_angles, degrees
    head_out,             \* <<pitch, yaw>> returned
    \* ---- EAR normalisation (face_track.normalize_ear)
    ear_in,               \* the arguments ear, closed_threshold, open_threshold
    ear_out,              \* the value returned
    \* ---- typing activity (keyboard_activity.py): listener and sampling thread
    keystrokes_detected,  \* the shared list of keystroke timestamps
    kb_keys_per_30s,      \* keyboard_activity.keys_per_30s, the published count
    kb_typing_active,     \* keyboard_activity.typing_active, the published flag
    wall_clock,           \* time.time(), seconds
    sampler_pc,           \* position of update_typing_activity in its loop body
    sampler_now,          \* its local now
    sampler_kept,         \* the list its comprehension built
    pressed,              \* every timestamp on_press appended, in order
    pressed_at_len,       \* how many keystrokes had been pressed when len() was read
    passes,               \* completed sampling passes
    \* ---- the quote latch, check by check (FaceFocusTracker.check_quote_thresholds)
    quote_score,          \* focus_score passed to the last check_quote_thresholds
    latch_before,         \* last_quote_threshold as that check found it
    latched,              \* thresholds quoted for, the score below them and no re-arm since
    latched_before,       \* latched as the last check found it
    checks,               \* check_quote_thresholds calls so far
    \* ---- the backend service (main.py)
    attention_score,      \* main.attention_score
    focus_score_history,  \* main.focus_score_history
    session_stats,        \* what generate_session_stats gave the last /focus-session-stats
    requests              \* requests handled so far, also the clock of the timestamps

fusionVars == <<current_focus_score, prev_score, feat, last_raw, last_smoothed,
                start_score, bonus_applied, calls>>

blinkVars == <<blink_state, now, blink_detected, last_openness, feeds,
               closed_episode, ever_closed, expect_signal, expected_blinks,
               blink_before>>

smootherVars == <<smoother_alpha, smoother_state, sm_old, sm_sample, updates>>

gazeVars == <<cfg, gaze_label, last_vec>>

calibVars == <<horiz_vals, vert_vals, pose, calib_status, median_pose, stream_ended>>

trackerVars == <<metrics, session_blink_count, last_update_time, last_quote_threshold,
                 last_sent, quoted, frames, frame_blink_updates, rate_time, rate_elapsed,
                 rate_count_in, rate_reset_in, blinks_since_reset, update_interval,
                 prev_update_time, sends, sent_now, frame_start>>

cameraVars == <<calibration_file, force_calibrate, init_outcome>>

statsVars == <<focus_data, stats>>

headVars == <<euler_in, head_out>>

earVars == <<ear_in, ear_out>>

typingVars == <<keystrokes_detected, kb_keys_per_30s, kb_typing_active, wall_clock, sampler_pc,
                sampler_now, sampler_kept, pressed, pressed_at_len, passes>>

quoteVars == <<quote_score, latch_before, latched, latched_before, checks>>

serviceVars == <<attention_score, focus_score_history, session_stats, requests>>

sideVars == <<quoteVars, serviceVars>>

\* the state outside the per-frame core
outerVars == <<cameraVars, statsVars, headVars, earVars, typingVars, sideVars>>

vars == <<pc, fusionVars, blinkVars, smootherVars, gazeVars, calibVars, trackerVars, outerVars>>

Unit == 100 * 100

None == 0 - 1

Abs(x) == IF x < 0 THEN 0 - x ELSE x

Min(a, b) == IF a < b THEN a ELSE b

Max(a, b) == IF a > b THEN a ELSE b

(***************************************************************************)
(* Focus Score Fusion Engine: compute_focus_score                          *)
(***************************************************************************)
w_face == 25
w_gaze == 25
w_eyes == 20
w_head == 15
w_blink == 8
w_typing == 7

face_score(face_present) == IF face_present THEN Unit ELSE 0

eye_score(eyes_open_ratio, eyes_closed_duration) ==
    LET clamped == Max(0, Min(Unit, eyes_open_ratio))
    IN  IF eyes_closed_duration > 3
        THEN Max(6000, clamped - 2000)
        ELSE clamped

gaze_map(gaze_direction) ==
    CASE gaze_direction = "forward" -> 10000
      [] gaze_direction = "down"    -> 9000
      [] gaze_direction = "up"      -> 9000
      [] gaze_direction = "left"    -> 8000
      [] gaze_direction = "right"   -> 8000
      [] OTHER                      -> 8000

gaze_score(gaze_direction, gaze_away_ratio) ==
    LET gaze_away_penalty == Max(0, Min(2500, gaze_away_ratio))
    IN  (gaze_map(gaze_direction) * (Unit - gaze_away_penalty)) \div Unit

head_score(head_pitch, head_yaw) ==
    LET byYaw   == Unit - Min((Abs(head_yaw) * Unit) \div 120, 5000)
        byPitch == IF head_pitch < -45 THEN Max(6000, byYaw - 1500) ELSE byYaw
    IN  Max(6000, Min(Unit, byPitch))

blink_score(blink_rate) ==
    Max(7000, Unit - Min((Abs(blink_rate - 2000) * 125) \div 100, 3000))

typing_score(keys_per_30s, typing_active) ==
    IF typing_active THEN Min((keys_per_30s * Unit) \div 15, Unit) ELSE 6000

\* raw_score = weighted_sum * 100.0, in 1/10000 of a point
raw_score(f) ==
      w_face   * face_score(f.face_present)
    + w_gaze   * gaze_score(f.gaze_direction, f.gaze_away_ratio)
    + w_eyes   * eye_score(f.eyes_open_ratio, f.eyes_closed_duration)
    + w_head   * head_score(f.head_pitch, f.head_yaw)
    + w_blink  * blink_score(f.blink_rate)
    + w_typing * typing_score(f.keys_per_30s, f.typing_active)

\* a plausible slip: the earlier, faster blend rates (0.6 / 0.5) left in place
alpha_fast(raw, prev) == IF raw > prev * 100 THEN 60 ELSE 50

\* blend rate in hundredths: 0.2 when improving, 0.15 otherwise
alpha(raw, prev) == IF raw > prev * 100 THEN 20 ELSE 15

\* focus_score = (1 - alpha) * prev_score + alpha * raw_score, in 1/1000000 of a point
smoothed(raw, prev) ==
    (100 - alpha(raw, prev)) * (prev * 100) + alpha(raw, prev) * raw

bonus_applies(sm, prev) == sm > 85 * 1000000 /\ prev > 80 * 100

\* a plausible slip: the bonus added whatever the two scores are
with_bonus_always(sm, prev) == Min(100 * 1000000, sm + 500000)

\* a plausible slip: the upper cap dropped
cap100_off(x) == x

\* min(100.0, x), in 1/1000000 of a point
cap100(x) == Min(100 * 1000000, x)

with_bonus(sm, prev) == IF bonus_applies(sm, prev) THEN cap100(sm + 500000) ELSE sm

\* round(x, 2): to the nearest 1/100, ties to the even neighbour
round2(x) ==
    LET q == x \div 10000
        r == x % 10000
    IN  IF r < 5000 THEN q
        ELSE IF r > 5000 THEN q + 1
        ELSE IF q % 2 = 0 THEN q ELSE q + 1

compute_focus_score(f, prev) ==
    LET raw == raw_score(f)
        sm  == smoothed(raw, prev)
        fs  == with_bonus(sm, prev)
    IN  round2(Max(0, cap100(fs)))

(***************************************************************************)
(* Blink State Machine: update_blink_metrics                               *)
(***************************************************************************)

\* a plausible slip: one threshold for both directions, no dead zone
is_open_single_threshold(eyes_open_ratio) == eyes_open_ratio >= 2000

is_closed(eyes_open_ratio) == eyes_open_ratio < 2000

is_open(eyes_open_ratio) == eyes_open_ratio > 2500

closed_branch(current_time, blink_count, eyes_closed_start_time) ==
    LET start == IF eyes_closed_start_time = None THEN current_time
                 ELSE eyes_closed_start_time
    IN  [blink_in_progress |-> TRUE,
         blink_count |-> blink_count,
         eyes_closed_start_time |-> start,
         eyes_closed_duration |-> current_time - start,
         blink_detected |-> FALSE]

\* a plausible slip: the duration is not cleared when the eyes reopen
open_branch_keeps_duration(blink_in_progress, blink_count, eyes_closed_duration) ==
    [blink_in_progress |-> FALSE,
     blink_count |-> IF blink_in_progress THEN blink_count + 1 ELSE blink_count,
     eyes_closed_start_time |-> None,
     eyes_closed_duration |-> eyes_closed_duration,
     blink_detected |-> blink_in_progress]

open_branch(blink_in_progress, blink_count, eyes_closed_duration) ==
    [blink_in_progress |-> FALSE,
     blink_count |-> IF blink_in_progress THEN blink_count + 1 ELSE blink_count,
     eyes_closed_start_time |-> None,
     eyes_closed_duration |-> 0,
     blink_detected |-> blink_in_progress]

\* a plausible slip: the dead zone treated as 'nothing happens', the duration frozen
dead_zone_branch_freezes_duration(current_time, blink_in_progress, blink_count, eyes_closed_start_time, eyes_closed_duration) ==
    [blink_in_progress |-> blink_in_progress,
     blink_count |-> blink_count,
     eyes_closed_start_time |-> eyes_closed_start_time,
     eyes_closed_duration |-> eyes_closed_duration,
     blink_detected |-> FALSE]

dead_zone_branch(current_time, blink_in_progress, blink_count, eyes_closed_start_time, eyes_closed_duration) ==
    [blink_in_progress |-> blink_in_progress,
     blink_count |-> blink_count,
     eyes_closed_start_time |-> eyes_closed_start_time,
     eyes_closed_duration |-> IF eyes_closed_start_time # None
                              THEN current_time - eyes_closed_start_time
                              ELSE eyes_closed_duration,
     blink_detected |-> FALSE]

update_blink_metrics(eyes_open_ratio, current_time, blink_in_progress, blink_count, eyes_closed_start_time, eyes_closed_duration) ==
    IF is_closed(eyes_open_ratio)
    THEN closed_branch(current_time, blink_count, eyes_closed_start_time)
    ELSE IF is_open(eyes_open_ratio)
    THEN open_branch(blink_in_progress, blink_count, eyes_closed_duration)
    ELSE dead_zone_branch(current_time, blink_in_progress, blink_count,
                          eyes_closed_start_time, eyes_closed_duration)

\* the call as both callers make it: on the fields of a blink_state dict
blink_update(bs, eyes_open_ratio, current_time) ==
    update_blink_metrics(eyes_open_ratio, current_time, bs.blink_in_progress,
                         bs.blink_count, bs.eyes_closed_start_time,
                         bs.eyes_closed_duration)

\* blink_state with the four returned fields stored back
blink_stored(bs, r) ==
    [bs EXCEPT !.blink_in_progress = r.blink_in_progress,
               !.blink_count = r.blink_count,
               !.eyes_closed_start_time = r.eyes_closed_start_time,
               !.eyes_closed_duration = r.eyes_closed_duration]

\* FaceFocusTracker.__init__: self.blink_state
InitialBlinkState ==
    [blink_in_progress |-> FALSE, blink_count |-> 0, eyes_closed_start_time |-> None,
     eyes_closed_duration |-> 0, last_reset_time |-> 0]

\* bookkeeping of what was fed, kept beside every update_blink_metrics call
FeedNoted(eyes_open_ratio) ==
    /\ last_openness' = eyes_open_ratio
    /\ feeds' = feeds + 1
    /\ closed_episode' = IF eyes_open_ratio < 2000 THEN TRUE
                         ELSE IF eyes_open_ratio > 2500 THEN FALSE
                         ELSE closed_episode
    /\ ever_closed' = (ever_closed \/ eyes_open_ratio < 2000)
    /\ expect_signal' = (eyes_open_ratio > 2500 /\ closed_episode)
    /\ expected_blinks' = IF eyes_open_ratio > 2500 /\ closed_episode
                          THEN expected_blinks + 1 ELSE expected_blinks
    /\ blink_before' = blink_state

BlinkStart ==
    /\ blink_state = InitialBlinkState
    /\ now = 0
    /\ blink_detected = FALSE
    /\ last_openness = 0
    /\ feeds = 0
    /\ closed_episode = FALSE
    /\ ever_closed = FALSE
    /\ expect_signal = FALSE
    /\ expected_blinks = 0
    /\ blink_before = InitialBlinkState

(***************************************************************************)
(* Gaze smoothing: GazeSmoother                                            *)
(***************************************************************************)

\* a plausible slip: the two weights exchanged
ema_blend_swapped(a, sample, old) == (a * old + (10 - a) * sample) \div 10

\* self.alpha * vec + (1.0 - self.alpha) * self.state, one component
ema_blend(a, sample, old) == (a * sample + (10 - a) * old) \div 10

GazeSmoother_update(a, state, vec) ==
    IF state = <<>>
    THEN vec
    ELSE <<ema_blend(a, vec[1], state[1]), ema_blend(a, vec[2], state[2])>>

SmootherUpdated(vec) ==
    /\ smoother_state' = GazeSmoother_update(smoother_alpha, smoother_state, vec)
    /\ sm_old' = smoother_state
    /\ sm_sample' = vec
    /\ updates' = updates + 1
    /\ UNCHANGED smoother_alpha

\* GazeSmoother.__init__(alpha)
SmootherStart(a) ==
    /\ smoother_alpha = a
    /\ smoother_state = <<>>
    /\ sm_old = <<>>
    /\ sm_sample = <<>>
    /\ updates = 0

(***************************************************************************)
(* Gaze classification: FaceFocusTracker.gaze_vector_to_label              *)
(***************************************************************************)
NoCfg == [k \in {} |-> 0]

Labels == {"Right", "Left", "Down", "Up", "Center"}

\* the four comparisons in source order; reading a key the profile lacks raises KeyError
gaze_rules(c, dx, dy) ==
    IF "left_thresh" \notin DOMAIN c THEN "KeyError"
    ELSE IF dx < c["left_thresh"] THEN "Right"
    ELSE IF "right_thresh" \notin DOMAIN c THEN "KeyError"
    ELSE IF dx > c["right_thresh"] THEN "Left"
    ELSE IF "top_thresh" \notin DOMAIN c THEN "KeyError"
    ELSE IF dy < c["top_thresh"] THEN "Down"
    ELSE IF "down_thresh" \notin DOMAIN c THEN "KeyError"
    ELSE IF dy > c["down_thresh"] THEN "Up"
    ELSE "Center"

gaze_vector_to_label(c, vec) ==
    IF DOMAIN c = {} THEN "Center" ELSE gaze_rules(c, vec[1], vec[2])

GazeStart ==
    /\ cfg = NoCfg
    /\ gaze_label = ""
    /\ last_vec = <<>>

(***************************************************************************)
(* Calibration: calibrate_user, load_calibration                           *)
(***************************************************************************)
RECURSIVE SeqMin(_)
SeqMin(q) == IF Len(q) = 1 THEN q[1] ELSE Min(q[1], SeqMin(Tail(q)))

RECURSIVE SeqMax(_)
SeqMax(q) == IF Len(q) = 1 THEN q[1] ELSE Max(q[1], SeqMax(Tail(q)))

RECURSIVE Insert(_, _)
Insert(x, q) ==
    IF q = <<>> THEN <<x>>
    ELSE IF x <= q[1] THEN <<x>> \o q
    ELSE <<q[1]>> \o Insert(x, Tail(q))

RECURSIVE Sorted(_)
Sorted(q) == IF q = <<>> THEN <<>> ELSE Insert(q[1], Sorted(Tail(q)))

\* np.median of a non-empty list
median(q) ==
    LET t == Sorted(q)
        n == Len(q)
    IN  IF n % 2 = 1 THEN t[(n + 1) \div 2]
        ELSE (t[n \div 2] + t[n \div 2 + 1]) \div 2

\* np.isclose(a, b): |a - b| <= 1e-8 + 1e-5 * |b|
isclose(a, b) == Abs(a - b) * 100000 <= 10 + Abs(b)

\* the slice q[i:] of a Python list (0-based i)
slice_from(q, i) == SubSeq(q, i + 1, Len(q))

\* a plausible slip: no degenerate-case guard, the band may have zero width
vertical_extremes_unguarded(vert) ==
    <<SeqMin(slice_from(vert, 3)), SeqMax(slice_from(vert, 4))>>

\* v_up, v_down after the degenerate-case guard
vertical_extremes(vert) ==
    LET v_up   == SeqMin(slice_from(vert, 3))
        v_down == SeqMax(slice_from(vert, 4))
        vertical_height == (v_up + v_down) \div 2
    IN  IF isclose(v_up, v_down)
        THEN <<Max(0, vertical_height - 500), Min(Unit, vertical_height + 500)>>
        ELSE <<v_up, v_down>>

\* a plausible slip: the neutral point taken from the last pose, not the first
derive_thresholds_anchor_last(horiz, vert) ==
    LET h_center == horiz[Len(horiz)]
        v_center == vert[Len(vert)]
        h_left   == SeqMin(slice_from(horiz, 1))
        h_right  == SeqMax(slice_from(horiz, 2))
        ve       == vertical_extremes(vert)
        horiz_margin == (h_right - h_left) \div 2
        vert_margin  == (ve[2] - ve[1]) \div 2
    IN  [left_thresh  |-> h_center - horiz_margin,
         right_thresh |-> h_center + horiz_margin,
         top_thresh   |-> v_center - vert_margin,
         down_thresh  |-> v_center + vert_margin]

\* the thresholds derived from the recorded medians (five of each are needed:
\* with fewer, horiz_vals[0] or min()/max() of an empty slice raises)
derive_thresholds(horiz, vert) ==
    LET h_center == horiz[1]
        v_center == vert[1]
        h_left   == SeqMin(slice_from(horiz, 1))
        h_right  == SeqMax(slice_from(horiz, 2))
        ve       == vertical_extremes(vert)
        horiz_margin == (h_right - h_left) \div 2
        vert_margin  == (ve[2] - ve[1]) \div 2
    IN  [left_thresh  |-> h_center - horiz_margin,
         right_thresh |-> h_center + horiz_margin,
         top_thresh   |-> v_center - vert_margin,
         down_thresh  |-> v_center + vert_margin]

\* load_calibration when the file is missing
DefaultProfile ==
    [left_thresh |-> 3500, right_thresh |-> 6500, top_thresh |-> 3000, down_thresh |-> 7000]

\* initialize_camera when load_calibration raises (a file that is not JSON)
FallbackProfile ==
    [left_thresh |-> 0 - 1500, right_thresh |-> 1500, up_thresh |-> 0 - 1000,
     down_thresh |-> 1000, center_x |-> 0, center_y |-> 0]

CalibStart ==
    /\ horiz_vals = <<>>
    /\ vert_vals = <<>>
    /\ pose = 0
    /\ calib_status = "idle"
    /\ median_pose = <<>>
    /\ stream_ended = FALSE

(***************************************************************************)
(* Geometric features used by the tracker                                  *)
(***************************************************************************)

\* compute_average_ear: the mean of the two eyes' height/width, 0.0 for a zero width
compute_average_ear(lm) ==
    LET left_ear  == IF lm.left_eye_width # 0
                     THEN (lm.left_eye_height * Unit) \div lm.left_eye_width ELSE 0
        right_ear == IF lm.right_eye_width # 0
                     THEN (lm.right_eye_height * Unit) \div lm.right_eye_width ELSE 0
    IN  (left_ear + right_ear) \div 2

\* a plausible slip: the clip left out
normalize_ear_unclipped(ear, closed_threshold, open_threshold) ==
    IF open_threshold = closed_threshold THEN 0
    ELSE ((ear - closed_threshold) * Unit) \div (open_threshold - closed_threshold)

\* normalize_ear(ear, closed_threshold, open_threshold)
normalize_ear(ear, closed_threshold, open_threshold) ==
    IF open_threshold = closed_threshold THEN 0
    ELSE Max(0, Min(Unit, ((ear - closed_threshold) * Unit) \div (open_threshold - closed_threshold)))

\* a / b for a divisor of either sign
quotient(a, b) == IF b < 0 THEN (0 - a) \div (0 - b) ELSE a \div b

\* eye_gaze_vector(pts): the iris inside its eye box, (0.5, 0.5) for an empty box
eye_gaze_vector(pts) ==
    LET eye_w == pts.inner_x - pts.outer_x
        eye_h == pts.lower_y - pts.upper_y
    IN  IF eye_w = 0 \/ eye_h = 0
        THEN <<5000, 5000>>
        ELSE <<quotient((pts.iris_x - pts.outer_x) * Unit, eye_w),
               quotient((pts.iris_y - pts.upper_y) * Unit, eye_h)>>

\* raw_vec = (vec_r + vec_l) / 2.0
raw_gaze_vector(right_pts, left_pts) ==
    LET r == eye_gaze_vector(right_pts)
        l == eye_gaze_vector(left_pts)
    IN  <<(r[1] + l[1]) \div 2, (r[2] + l[2]) \div 2>>

\* a plausible slip: a full turn taken off instead of a half turn
wrap_angle_full_turn(a) == IF a > 90 THEN a - 360 ELSE IF a < 0 - 90 THEN a + 360 ELSE a

\* the wrap of pitch and of yaw in estimate_head_orientation
wrap_angle(a) == IF a > 90 THEN a - 180 ELSE IF a < 0 - 90 THEN a + 180 ELSE a

\* estimate_head_orientation, with the caller's fallback to (0.0, 0.0) on None
head_pitch_yaw(lm) ==
    IF lm.pnp_success THEN <<wrap_angle(lm.euler_x), wrap_angle(lm.euler_y)>> ELSE <<0, 0>>

(***************************************************************************)
(* Blink rate: the computation process_frame and                           *)
(* compute_enhanced_face_metrics both end with                             *)
(***************************************************************************)

\* a plausible slip: the timer restarts but the counter is kept
rate_computation_keeps_count(bs, current_time) ==
    LET time_elapsed == current_time - bs.last_reset_time
    IN  IF time_elapsed >= 60
        THEN [blink_state |-> [bs EXCEPT !.last_reset_time = current_time],
              blink_rate  |-> (bs.blink_count * 6000) \div time_elapsed]
        ELSE [blink_state |-> bs,
              blink_rate  |-> (bs.blink_count * 6000) \div Max(time_elapsed, 1)]

rate_computation(bs, current_time) ==
    LET time_elapsed == current_time - bs.last_reset_time
    IN  IF time_elapsed >= 60
        THEN [blink_state |-> [bs EXCEPT !.blink_count = 0, !.last_reset_time = current_time],
              blink_rate  |-> (bs.blink_count * 6000) \div time_elapsed]
        ELSE [blink_state |-> bs,
              blink_rate  |-> (bs.blink_count * 6000) \div Max(time_elapsed, 1)]

\* bookkeeping kept beside every blink-rate computation
RateNoted(bs_in, bs_out, current_time, signalled) ==
    /\ rate_time' = current_time
    /\ rate_elapsed' = current_time - bs_in.last_reset_time
    /\ rate_count_in' = bs_in.blink_count
    /\ rate_reset_in' = bs_in.last_reset_time
    /\ blinks_since_reset' =
           IF bs_out.last_reset_time # bs_in.last_reset_time THEN 0
           ELSE IF signalled THEN blinks_since_reset + 1
           ELSE blinks_since_reset

(***************************************************************************)
(* Quote thresholds: FaceFocusTracker.check_quote_thresholds               *)
(***************************************************************************)
thresholds == <<80, 60, 50, 40, 20>>

\* index of the first threshold the score is below and the latch allows, 0 if none
crossed_threshold(focus_score, last) ==
    LET hits == { i \in 1..Len(thresholds) :
                    focus_score < thresholds[i] * 100 /\ last >= thresholds[i] }
    IN  IF hits = {} THEN 0 ELSE CHOOSE i \in hits : \A j \in hits : i <= j

\* <<threshold a quote is triggered for (0: none), last_quote_threshold afterwards>>
check_quote_thresholds(focus_score, last) ==
    LET i      == crossed_threshold(focus_score, last)
        latch  == IF i = 0 THEN last ELSE thresholds[i]
        rearm  == IF focus_score > (latch + 10) * 100 THEN 100 ELSE latch
    IN  <<IF i = 0 THEN 0 ELSE thresholds[i], rearm>>

\* FaceFocusTracker.__init__, the fields the loop uses
TrackerStart(interval) ==
    /\ update_interval = interval
    /\ metrics = [face_present |-> FALSE]
    /\ session_blink_count = 0
    /\ last_update_time = 0
    /\ last_quote_threshold = 100
    /\ last_sent = None
    /\ quoted = 0
    /\ frames = 0
    /\ frame_blink_updates = 0
    /\ rate_time = None
    /\ rate_elapsed = 0
    /\ rate_count_in = 0
    /\ rate_reset_in = 0
    /\ blinks_since_reset = 0
    /\ prev_update_time = 0
    /\ sends = 0
    /\ sent_now = FALSE
    /\ frame_start = [face |-> FALSE, degenerate |-> FALSE,
                      blink_state |-> InitialBlinkState, smoother_state |-> <<>>]

(***************************************************************************)
(* The calibration file and load_calibration                               *)
(***************************************************************************)
MissingFile == [status |-> "missing", content |-> NoCfg]

MalformedFile == [status |-> "malformed", content |-> NoCfg]

StoredFile(profile) == [status |-> "stored", content |-> profile]

\* a plausible slip: the missing file is reported to the caller
load_calibration_raises_when_missing(file) ==
    IF file.status = "missing" THEN [raised |-> "FileNotFoundError", cfg |-> NoCfg]
    ELSE IF file.status = "malformed" THEN [raised |-> "JSONDecodeError", cfg |-> NoCfg]
    ELSE [raised |-> "", cfg |-> file.content]

\* load_calibration: the stored profile, the defaults for a missing file,
\* json.load's exception for a file that is not JSON
load_calibration(file) ==
    IF file.status = "missing" THEN [raised |-> "", cfg |-> DefaultProfile]
    ELSE IF file.status = "malformed" THEN [raised |-> "JSONDecodeError", cfg |-> NoCfg]
    ELSE [raised |-> "", cfg |-> file.content]

\* initialize_camera, the branch without --calibrate: the loaded profile, or the
\* built-in profile when load_calibration raises one of the two caught exceptions
profile_without_calibration(file) ==
    IF load_calibration(file).raised \in {"FileNotFoundError", "JSONDecodeError"}
    THEN FallbackProfile
    ELSE load_calibration(file).cfg

CameraStart(file, force) ==
    /\ calibration_file = file
    /\ force_calibrate = force
    /\ init_outcome = "none"

(***************************************************************************)
(* Session statistics: generate_session_stats                              *)
(* Scores are whole points here; average_focus and median_focus are in     *)
(* 1/100 of a point.  std_focus (a square root) is left out.               *)
(***************************************************************************)
EmptyDict == [k \in {} |-> 0]

\* df["focus_score"] and df["timestamp"]
score_column(data) == [i \in 1..Len(data) |-> data[i].focus_score]

time_column(data) == [i \in 1..Len(data) |-> data[i].timestamp]

\* np.diff(scores, prepend=scores[0]): a leading 0, then the successive changes
diff_prepend(scores) ==
    [i \in 1..Len(scores) |-> IF i = 1 THEN 0 ELSE scores[i] - scores[i - 1]]

RECURSIVE SeqSum(_)
SeqSum(q) == IF q = <<>> THEN 0 ELSE q[1] + SeqSum(Tail(q))

\* np.argmin / np.argmax: the first position holding the extreme
argmin(q) == CHOOSE i \in 1..Len(q) : q[i] = SeqMin(q) /\ \A j \in 1..(i - 1) : q[j] # q[i]

argmax(q) == CHOOSE i \in 1..Len(q) : q[i] = SeqMax(q) /\ \A j \in 1..(i - 1) : q[j] # q[i]

\* deltas[deltas > 0], deltas[deltas < 0]
ups_of(deltas) == SelectSeq(deltas, LAMBDA x : x > 0)

downs_of(deltas) == SelectSeq(deltas, LAMBDA x : x < 0)

\* the inner loop of count_recoveries: the first j after i with arr[j] >= threshold, 0 if none
first_gain_after(arr, i, threshold) ==
    LET gains == { j \in (i + 1)..Len(arr) : arr[j] >= threshold }
    IN  IF gains = {} THEN 0 ELSE CHOOSE j \in gains : \A k \in gains : j <= k

\* a plausible slip: the default threshold 10.0 instead of the 8.0 passed at the call
RECURSIVE count_recoveries_default_threshold(_, _, _)
count_recoveries_default_threshold(arr, i, threshold) ==
    IF i > Len(arr) - 1 THEN 0
    ELSE (IF arr[i] <= 0 - 10 /\ first_gain_after(arr, i, 10) # 0 THEN 1 ELSE 0)
         + count_recoveries_default_threshold(arr, i + 1, threshold)

\* count_recoveries(arr, threshold), the outer loop from position i (1-based) on
RECURSIVE count_recoveries(_, _, _)
count_recoveries(arr, i, threshold) ==
    IF i > Len(arr) - 1 THEN 0
    ELSE (IF arr[i] <= 0 - threshold /\ first_gain_after(arr, i, threshold) # 0 THEN 1 ELSE 0)
         + count_recoveries(arr, i + 1, threshold)

\* a plausible slip: the largest gain and drop taken over the scores, not the deltas
stats_of_extremes_from_scores(data) ==
    LET scores == score_column(data)
        times  == time_column(data)
        deltas == diff_prepend(scores)
    IN  [duration_seconds |-> Len(scores),
         average_focus |-> (SeqSum(scores) * 100) \div Len(scores),
         median_focus |-> median([i \in 1..Len(scores) |-> scores[i] * 100]),
         min_focus |-> SeqMin(scores),
         min_focus_time |-> times[argmin(scores)],
         max_focus |-> SeqMax(scores),
         max_focus_time |-> times[argmax(scores)],
         first_score |-> scores[1],
         last_score |-> scores[Len(scores)],
         total_up_changes |-> Len(ups_of(deltas)),
         total_down_changes |-> Len(downs_of(deltas)),
         sum_positive_deltas |-> SeqSum(ups_of(deltas)),
         sum_negative_deltas |-> SeqSum(downs_of(deltas)),
         largest_single_drop |-> SeqMin(scores) - SeqMax(scores),
         largest_single_gain |-> SeqMax(scores) - SeqMin(scores),
         recovery_moments_est |-> count_recoveries(deltas, 1, 8)]

\* the stats dict of a non-empty history
stats_of(data) ==
    LET scores == score_column(data)
        times  == time_column(data)
        deltas == diff_prepend(scores)
    IN  [duration_seconds |-> Len(scores),
         average_focus |-> (SeqSum(scores) * 100) \div Len(scores),
         median_focus |-> median([i \in 1..Len(scores) |-> scores[i] * 100]),
         min_focus |-> SeqMin(scores),
         min_focus_time |-> times[argmin(scores)],
         max_focus |-> SeqMax(scores),
         max_focus_time |-> times[argmax(scores)],
         first_score |-> scores[1],
         last_score |-> scores[Len(scores)],
         total_up_changes |-> Len(ups_of(deltas)),
         total_down_changes |-> Len(downs_of(deltas)),
         sum_positive_deltas |-> SeqSum(ups_of(deltas)),
         sum_negative_deltas |-> SeqSum(downs_of(deltas)),
         largest_single_drop |-> SeqMin(deltas),
         largest_single_gain |-> SeqMax(deltas),
         recovery_moments_est |-> count_recoveries(deltas, 1, 8)]

\* a plausible slip: the empty history refused, as generate_focus_chart_base64 does
generate_session_stats_raises_on_empty(data) ==
    IF data = <<>>
    THEN [returned |-> FALSE, raised |-> TRUE, result |-> EmptyDict]
    ELSE [returned |-> TRUE, raised |-> FALSE, result |-> stats_of(data)]

\* the stats dict of a history in which some entries, not all, lack "focus_score":
\* the column holds NaN for them and every statistic computed from it is NaN
nan_stats(data) == [duration_seconds |-> Len(data), nan |-> TRUE]

\* generate_session_stats(focus_data): df["focus_score"] raises KeyError when no
\* entry has that key
generate_session_stats(data) ==
    IF data = <<>>
    THEN [returned |-> TRUE, raised |-> FALSE, result |-> EmptyDict]
    ELSE IF \A i \in 1..Len(data) : "focus_score" \notin DOMAIN data[i]
    THEN [returned |-> FALSE, raised |-> TRUE, result |-> EmptyDict]
    ELSE IF \E i \in 1..Len(data) : "focus_score" \notin DOMAIN data[i]
    THEN [returned |-> TRUE, raised |-> FALSE, result |-> nan_stats(data)]
    ELSE [returned |-> TRUE, raised |-> FALSE, result |-> stats_of(data)]

StatsStart ==
    /\ focus_data = <<>>
    /\ stats = [returned |-> FALSE, raised |-> FALSE, result |-> EmptyDict]

HeadStart ==
    /\ euler_in = <<0, 0>>
    /\ head_out = <<>>

EarStart ==
    /\ ear_in = [ear |-> 0, closed_threshold |-> 1500, open_threshold |-> 3500]
    /\ ear_out = None

\* keyboard_activity.py, module level: the list and the two published values
TypingStart ==
    /\ keystrokes_detected = <<>>
    /\ kb_keys_per_30s = 0
    /\ kb_typing_active = FALSE
    /\ wall_clock = 0
    /\ sampler_pc = "now"
    /\ sampler_now = 0
    /\ sampler_kept = <<>>
    /\ pressed = <<>>
    /\ pressed_at_len = 0
    /\ passes = 0

\* no check_quote_thresholds call yet
QuoteStart ==
    /\ quote_score = 100 * 100
    /\ latch_before = 100
    /\ latched = {}
    /\ latched_before = {}
    /\ checks = 0

\* main.py, module level: attention_score = 100, focus_score_history = []
ServiceStart ==
    /\ attention_score = 100
    /\ focus_score_history = <<>>
    /\ session_stats = [returned |-> FALSE, raised |-> FALSE, result |-> EmptyDict]
    /\ requests = 0

SideStart ==
    /\ QuoteStart
    /\ ServiceStart

OuterStart ==
    /\ CameraStart(MissingFile, FALSE)
    /\ StatsStart
    /\ HeadStart
    /\ EarStart
    /\ TypingStart
    /\ SideStart

(***************************************************************************)
(* Inputs of the fusion engine                                             *)
(***************************************************************************)
MaxCalls == 2

StartScores == {0, 50, 4000, 8000, 8001, 8500, 9000, 9950, 10000}

\* <<eyes_open_ratio, eyes_closed_duration>>
EyeInputs == { <<10000, 0>>, <<1000, 4>>, <<0, 0>> }

\* <<gaze_direction, gaze_away_ratio>>
GazeInputs == { <<"forward", 0>>, <<"left", 10000>>, <<"Center", 0>> }

\* <<head_pitch, head_yaw, blink_rate, keys_per_30s, typing_active>>
OtherInputs == { <<0, 0, 2000, 15, TRUE>>,
                 <<0 - 50, 180, 6000, 0, TRUE>>,
                 <<0, 30, 2113, 0, FALSE>> }

Features ==
    { [face_present |-> fp,
       eyes_open_ratio |-> e[1], eyes_closed_duration |-> e[2],
       gaze_direction |-> g[1], gaze_away_ratio |-> g[2],
       head_pitch |-> o[1], head_yaw |-> o[2], blink_rate |-> o[3],
       keys_per_30s |-> o[4], typing_active |-> o[5]] :
      fp \in BOOLEAN, e \in EyeInputs, g \in GazeInputs, o \in OtherInputs }

NoFeatures ==
    [face_present |-> FALSE, eyes_open_ratio |-> 0, eyes_closed_duration |-> 0,
     gaze_direction |-> "", gaze_away_ratio |-> 0, head_pitch |-> 0, head_yaw |-> 0,
     blink_rate |-> 0, keys_per_30s |-> 0, typing_active |-> FALSE]

\* one call compute_focus_score(f, prev_score = current_focus_score) whose result
\* is stored back (face_focus_tracker.py: self.current_focus_score = new_focus_score)
ScoreCall(f) ==
    /\ prev_score' = current_focus_score
    /\ feat' = f
    /\ last_raw' = raw_score(f)
    /\ last_smoothed' = smoothed(raw_score(f), current_focus_score)
    /\ bonus_applied' = (bonus_applied \/
            bonus_applies(smoothed(raw_score(f), current_focus_score), current_focus_score))
    /\ current_focus_score' = compute_focus_score(f, current_focus_score)
    /\ UNCHANGED start_score

FusionStart(s, f) ==
    /\ current_focus_score = s
    /\ prev_score = s
    /\ start_score = s
    /\ feat = f
    /\ last_raw = 0
    /\ last_smoothed = 0
    /\ bonus_applied = FALSE
    /\ calls = 0

(***************************************************************************)
(* SpecFusion: compute_focus_score called with arbitrary valid inputs,     *)
(* each result carried into the next call as prev_score.                  *)
(***************************************************************************)
InitFusion ==
    /\ pc = "fusion"
    /\ \E s \in StartScores : FusionStart(s, NoFeatures)
    /\ BlinkStart
    /\ SmootherStart(3)
    /\ GazeStart
    /\ CalibStart
    /\ TrackerStart(2)
    /\ OuterStart

Compute ==
    /\ pc = "fusion"
    /\ calls < MaxCalls
    /\ \E f \in Features : ScoreCall(f)
    /\ calls' = calls + 1
    /\ UNCHANGED <<pc, blinkVars, smootherVars, gazeVars, calibVars, trackerVars, outerVars>>

NextFusion == Compute

SpecFusion == InitFusion /\ [][NextFusion]_vars

(***************************************************************************)
(* SpecRepeat: one fixed feature set fed again and again.                  *)
(***************************************************************************)
InitRepeat ==
    /\ pc = "repeat"
    /\ \E s \in StartScores, f \in Features : FusionStart(s, f)
    /\ BlinkStart
    /\ SmootherStart(3)
    /\ GazeStart
    /\ CalibStart
    /\ TrackerStart(2)
    /\ OuterStart

Repeat ==
    /\ pc \in {"repeat", "repeated"}
    /\ ScoreCall(feat)
    /\ pc' = "repeated"
    /\ UNCHANGED <<calls, blinkVars, smootherVars, gazeVars, calibVars, trackerVars, outerVars>>

NextRepeat == Repeat

SpecRepeat == InitRepeat /\ [][NextRepeat]_vars

(***************************************************************************)
(* SpecBlink: update_blink_metrics fed any sequence of openness values at  *)
(* non-decreasing times, starting from the initial blink state.            *)
(***************************************************************************)
MaxFeeds == 5

OpennessValues == {1000, 2000, 2200, 2500, 5000}

FeedGaps == {0, 1, 3}

InitBlink ==
    /\ pc = "blink"
    /\ FusionStart(100 * 100, NoFeatures)
    /\ BlinkStart
    /\ SmootherStart(3)
    /\ GazeStart
    /\ CalibStart
    /\ TrackerStart(2)
    /\ OuterStart

Feed ==
    /\ pc = "blink"
    /\ feeds < MaxFeeds
    /\ \E o \in OpennessValues, dt \in FeedGaps :
         LET r == blink_update(blink_state, o, now + dt)
         IN  /\ now' = now + dt
             /\ blink_state' = blink_stored(blink_state, r)
             /\ blink_detected' = r.blink_detected
             /\ FeedNoted(o)
    /\ UNCHANGED <<pc, fusionVars, smootherVars, gazeVars, calibVars, trackerVars, outerVars>>

NextBlink == Feed

SpecBlink == InitBlink /\ [][NextBlink]_vars

(***************************************************************************)
(* SpecSmoother: GazeSmoother.update fed any sequence of vectors.          *)
(* The vectors lie on a grid of 10^MaxSmooth so that every blend of the   *)
(* run is exact in integers.                                              *)
(***************************************************************************)
MaxSmooth == 3

RECURSIVE Pow10(_)
Pow10(n) == IF n = 0 THEN 1 ELSE 10 * Pow10(n - 1)

SmoothSamples == { <<a * Pow10(MaxSmooth), b * Pow10(MaxSmooth)>> : a \in {2, 5}, b \in {5, 9} }

\* 0.3 (the tracker), 0.2 (calibration), 1.0 (the upper end of the documented range)
SmootherAlphas == {2, 3, 10}

InitSmoother ==
    /\ pc = "smoother"
    /\ FusionStart(100 * 100, NoFeatures)
    /\ BlinkStart
    /\ \E a \in SmootherAlphas : SmootherStart(a)
    /\ GazeStart
    /\ CalibStart
    /\ TrackerStart(2)
    /\ OuterStart

Update ==
    /\ pc = "smoother"
    /\ updates < MaxSmooth
    /\ \E vec \in SmoothSamples : SmootherUpdated(vec)
    /\ UNCHANGED <<pc, fusionVars, blinkVars, gazeVars, calibVars, trackerVars, outerVars>>

NextSmoother == Update

SpecSmoother == InitSmoother /\ [][NextSmoother]_vars

(***************************************************************************)
(* SpecGaze: gaze_vector_to_label on the profiles initialize_camera can    *)
(* install and any smoothed vector.                                       *)
(***************************************************************************)
\* a profile written by an earlier calibration and loaded from the file
LoadedProfiles ==
    { derive_thresholds(<<0, 0 - 1000, 1000, 0, 0>>, <<0, 0, 0, 0 - 1000, 1000>>),
      derive_thresholds(<<5000, 2000, 8000, 5000, 5000>>, <<5000, 5000, 5000, 2000, 8000>>) }

Profiles == {DefaultProfile, FallbackProfile} \cup LoadedProfiles

GazeCoords == {0 - 2000, 0, 2500, 5000, 7500, 12000}

GazeVectors == { <<dx, dy>> : dx \in GazeCoords, dy \in GazeCoords }

InitGaze ==
    /\ pc = "gaze"
    /\ FusionStart(100 * 100, NoFeatures)
    /\ BlinkStart
    /\ SmootherStart(3)
    /\ cfg \in Profiles
    /\ gaze_label = ""
    /\ last_vec = <<>>
    /\ CalibStart
    /\ TrackerStart(2)
    /\ OuterStart

Classify ==
    /\ pc \in {"gaze", "classified"}
    /\ \E vec \in GazeVectors :
         /\ gaze_label' = gaze_vector_to_label(cfg, vec)
         /\ last_vec' = vec
    /\ pc' = "classified"
    /\ UNCHANGED <<cfg, fusionVars, blinkVars, smootherVars, calibVars, trackerVars, outerVars>>

NextGaze == Classify

SpecGaze == InitGaze /\ [][NextGaze]_vars

(***************************************************************************)
(* SpecCalib: calibrate_user, prompt by prompt.                            *)
(***************************************************************************)
MaxSamples == 2

\* smoothed <<dx, dy>> values a frame can add to samples_h / samples_v; eye_gaze_vector
\* does not clamp, so an iris 3 px below the upper lid of a 2 px high eye box gives dy = 1.5
SamplePairs == { <<5000, 5000>>, <<2000, 200>>, <<8000, 9800>>, <<5000, 15000>> }

PoseSamples == UNION { [1..n -> SamplePairs] : n \in 0..MaxSamples }

column(samples, i) == [k \in 1..Len(samples) |-> samples[k][i]]

InitCalib ==
    /\ pc = "calibrate"
    /\ FusionStart(100 * 100, NoFeatures)
    /\ BlinkStart
    /\ SmootherStart(2)
    /\ GazeStart
    /\ horiz_vals = <<>>
    /\ vert_vals = <<>>
    /\ pose = 0
    /\ calib_status = "sampling"
    /\ median_pose = <<>>
    /\ stream_ended = FALSE
    /\ TrackerStart(2)
    /\ OuterStart

\* one prompt: frames are sampled until Enter is pressed or the stream ends;
\* the medians are recorded only if a face was seen
PromptLeft ==
    /\ pc = "calibrate"
    /\ calib_status = "sampling"
    /\ pose < 5
    /\ \E samples \in PoseSamples :
         IF samples # <<>>
         THEN /\ horiz_vals' = Append(horiz_vals, median(column(samples, 1)))
              /\ vert_vals' = Append(vert_vals, median(column(samples, 2)))
              /\ median_pose' = Append(median_pose, pose + 1)
         ELSE UNCHANGED <<horiz_vals, vert_vals, median_pose>>
    /\ \E ended \in BOOLEAN : stream_ended' = (stream_ended \/ ended)
    /\ pose' = pose + 1
    /\ UNCHANGED <<pc, calib_status, fusionVars, blinkVars, smootherVars, gazeVars, trackerVars, outerVars>>

\* ESC during a prompt: KeyboardInterrupt
PromptAborted ==
    /\ pc = "calibrate"
    /\ calib_status = "sampling"
    /\ pose < 5
    /\ calib_status' = "aborted"
    /\ UNCHANGED <<pc, horiz_vals, vert_vals, pose, median_pose, stream_ended, fusionVars, blinkVars, smootherVars, gazeVars, trackerVars, outerVars>>

\* after the fifth prompt: the thresholds, or the exception of an index or an
\* empty min()/max() when fewer than five medians were recorded
ThresholdsDerived ==
    /\ pc = "calibrate"
    /\ calib_status = "sampling"
    /\ pose = 5
    /\ IF Len(horiz_vals) >= 5
       THEN /\ cfg' = derive_thresholds(horiz_vals, vert_vals)
            /\ calib_status' = "done"
       ELSE /\ calib_status' = "raised"
            /\ UNCHANGED cfg
    /\ UNCHANGED <<pc, horiz_vals, vert_vals, pose, median_pose, stream_ended, gaze_label, last_vec,
                   fusionVars, blinkVars, smootherVars, trackerVars, outerVars>>

NextCalib == PromptLeft \/ PromptAborted \/ ThresholdsDerived

SpecCalib == InitCalib /\ [][NextCalib]_vars

(***************************************************************************)
(* SpecStats: a history grows entry by entry (timestamps "%H:%M:%S", one   *)
(* second apart at most here) and generate_session_stats is called on it.  *)
(***************************************************************************)
MaxHistory == 4

ScoreValues == {40, 42, 50, 60, 70}

\* seconds between two entries of the history
EntryGaps == {0, 1}

InitStats ==
    /\ pc = "stats"
    /\ FusionStart(100 * 100, NoFeatures)
    /\ BlinkStart
    /\ SmootherStart(3)
    /\ GazeStart
    /\ CalibStart
    /\ TrackerStart(2)
    /\ CameraStart(MissingFile, FALSE)
    /\ StatsStart
    /\ HeadStart
    /\ EarStart
    /\ TypingStart
    /\ SideStart

\* an entry {"timestamp", "focus_score"} is appended to the history
RecordScore ==
    /\ pc = "stats"
    /\ Len(focus_data) < MaxHistory
    /\ \E score \in ScoreValues, gap \in EntryGaps :
          focus_data' = Append(focus_data,
              [timestamp |-> IF focus_data = <<>> THEN 0
                             ELSE focus_data[Len(focus_data)].timestamp + gap,
               focus_score |-> score])
    /\ UNCHANGED <<pc, stats, fusionVars, blinkVars, smootherVars, gazeVars, calibVars,
                   trackerVars, sideVars, cameraVars, headVars, earVars, typingVars>>

\* generate_session_stats(focus_data)
GenerateStats ==
    /\ pc = "stats"
    /\ stats' = generate_session_stats(focus_data)
    /\ pc' = "reported"
    /\ UNCHANGED <<focus_data, fusionVars, blinkVars, smootherVars, gazeVars, calibVars,
                   trackerVars, sideVars, cameraVars, headVars, earVars, typingVars>>

NextStats == RecordScore \/ GenerateStats

SpecStats == InitStats /\ [][NextStats]_vars

(***************************************************************************)
(* SpecHead: estimate_head_orientation on the angles the rotation          *)
(* decomposition can hand it (x from atan2 in [-180, 180], whole degrees). *)
(***************************************************************************)
EulerAngles == (0 - 180)..180

InitHead ==
    /\ pc = "head"
    /\ FusionStart(100 * 100, NoFeatures)
    /\ BlinkStart
    /\ SmootherStart(3)
    /\ GazeStart
    /\ CalibStart
    /\ TrackerStart(2)
    /\ CameraStart(MissingFile, FALSE)
    /\ StatsStart
    /\ euler_in \in { <<x, y>> : x \in EulerAngles, y \in {0 - 180, 0 - 90, 0, 90, 135} }
    /\ head_out = <<>>
    /\ EarStart
    /\ TypingStart
    /\ SideStart

\* estimate_head_orientation after a successful solvePnP
EstimateHead ==
    /\ pc = "head"
    /\ head_out' = <<wrap_angle(euler_in[1]), wrap_angle(euler_in[2])>>
    /\ pc' = "estimated"
    /\ UNCHANGED <<euler_in, fusionVars, blinkVars, smootherVars, gazeVars, calibVars,
                   trackerVars, sideVars, cameraVars, statsVars, earVars, typingVars>>

NextHead == EstimateHead

SpecHead == InitHead /\ [][NextHead]_vars

(***************************************************************************)
(* SpecEar: normalize_ear on EAR values around and beyond its thresholds.  *)
(***************************************************************************)
EarValues == { k * 100 : k \in 0..50 }

\* <<closed_threshold, open_threshold>>: the defaults, another ordered pair, two equal pairs
EarThresholds == { <<1500, 3500>>, <<1000, 3000>>, <<2000, 2000>>, <<0, 0>> }

InitEar ==
    /\ pc = "ear"
    /\ FusionStart(100 * 100, NoFeatures)
    /\ BlinkStart
    /\ SmootherStart(3)
    /\ GazeStart
    /\ CalibStart
    /\ TrackerStart(2)
    /\ CameraStart(MissingFile, FALSE)
    /\ StatsStart
    /\ HeadStart
    /\ \E e \in EarValues, th \in EarThresholds :
          ear_in = [ear |-> e, closed_threshold |-> th[1], open_threshold |-> th[2]]
    /\ ear_out = None
    /\ TypingStart
    /\ SideStart

\* normalize_ear(ear, closed_threshold, open_threshold)
Normalize ==
    /\ pc = "ear"
    /\ ear_out' = normalize_ear(ear_in.ear, ear_in.closed_threshold, ear_in.open_threshold)
    /\ pc' = "normalized"
    /\ UNCHANGED <<ear_in, fusionVars, blinkVars, smootherVars, gazeVars, calibVars,
                   trackerVars, sideVars, cameraVars, statsVars, headVars, typingVars>>

NextEar == Normalize

SpecEar == InitEar /\ [][NextEar]_vars

(***************************************************************************)
(* SpecTyping: keyboard_activity.py.  The listener thread runs on_press,   *)
(* the daemon thread runs update_typing_activity; the two share the list   *)
(* keystrokes_detected without a lock, so a step of one may fall between   *)
(* any two steps of the other.  The comprehension sees every append made   *)
(* before it ends, so it is one step; the slice assignment is another.     *)
(***************************************************************************)
MaxKeys == 2

MaxPasses == 2

\* the readings of time.time() the run passes through: two inside the window
\* of a keystroke at 0, one on its edge for a keystroke at 1, one beyond
ClockValues == {0, 1, 31, 32}

\* window_seconds
window_seconds == 30

\* [t for t in keystrokes_detected if now - t <= window_seconds]
within_window(stamps, t_now) == SelectSeq(stamps, LAMBDA t : t_now - t <= window_seconds)

InitTyping ==
    /\ pc = "typing"
    /\ FusionStart(100 * 100, NoFeatures)
    /\ BlinkStart
    /\ SmootherStart(3)
    /\ GazeStart
    /\ CalibStart
    /\ TrackerStart(2)
    /\ CameraStart(MissingFile, FALSE)
    /\ StatsStart
    /\ HeadStart
    /\ EarStart
    /\ TypingStart
    /\ SideStart

\* time passes
Tick ==
    /\ pc = "typing"
    /\ \E t \in ClockValues :
          /\ t > wall_clock
          /\ wall_clock' = t
    /\ UNCHANGED <<pc, keystrokes_detected, kb_keys_per_30s, kb_typing_active, sampler_pc,
                   sampler_now, sampler_kept, pressed, pressed_at_len, passes,
                   fusionVars, blinkVars, smootherVars, gazeVars, calibVars,
                   trackerVars, sideVars, cameraVars, statsVars, headVars, earVars>>

\* on_press: keystrokes_detected.append(time.time())
OnPress ==
    /\ pc = "typing"
    /\ Len(pressed) < MaxKeys
    /\ keystrokes_detected' = Append(keystrokes_detected, wall_clock)
    /\ pressed' = Append(pressed, wall_clock)
    /\ UNCHANGED <<pc, kb_keys_per_30s, kb_typing_active, wall_clock, sampler_pc,
                   sampler_now, sampler_kept, pressed_at_len, passes,
                   fusionVars, blinkVars, smootherVars, gazeVars, calibVars,
                   trackerVars, sideVars, cameraVars, statsVars, headVars, earVars>>

\* update_typing_activity: now = time.time()
SamplerReadsClock ==
    /\ pc = "typing"
    /\ sampler_pc = "now"
    /\ passes < MaxPasses
    /\ sampler_now' = wall_clock
    /\ sampler_pc' = "filter"
    /\ UNCHANGED <<pc, keystrokes_detected, kb_keys_per_30s, kb_typing_active, wall_clock,
                   sampler_kept, pressed, pressed_at_len, passes,
                   fusionVars, blinkVars, smootherVars, gazeVars, calibVars,
                   trackerVars, sideVars, cameraVars, statsVars, headVars, earVars>>

\* update_typing_activity: the right-hand side of line 15 is built
SamplerFilters ==
    /\ pc = "typing"
    /\ sampler_pc = "filter"
    /\ sampler_kept' = within_window(keystrokes_detected, sampler_now)
    /\ sampler_pc' = "store"
    /\ UNCHANGED <<pc, keystrokes_detected, kb_keys_per_30s, kb_typing_active, wall_clock,
                   sampler_now, pressed, pressed_at_len, passes,
                   fusionVars, blinkVars, smootherVars, gazeVars, calibVars,
                   trackerVars, sideVars, cameraVars, statsVars, headVars, earVars>>

\* update_typing_activity: keystrokes_detected[:] = the list built
SamplerStores ==
    /\ pc = "typing"
    /\ sampler_pc = "store"
    /\ keystrokes_detected' = sampler_kept
    /\ sampler_pc' = "count"
    /\ UNCHANGED <<pc, kb_keys_per_30s, kb_typing_active, wall_clock,
                   sampler_now, sampler_kept, pressed, pressed_at_len, passes,
                   fusionVars, blinkVars, smootherVars, gazeVars, calibVars,
                   trackerVars, sideVars, cameraVars, statsVars, headVars, earVars>>

\* update_typing_activity: keys_per_30s = len(keystrokes_detected)
SamplerCounts ==
    /\ pc = "typing"
    /\ sampler_pc = "count"
    /\ kb_keys_per_30s' = Len(keystrokes_detected)
    /\ pressed_at_len' = Len(pressed)
    /\ sampler_pc' = "flag"
    /\ UNCHANGED <<pc, keystrokes_detected, kb_typing_active, wall_clock,
                   sampler_now, sampler_kept, pressed, passes,
                   fusionVars, blinkVars, smootherVars, gazeVars, calibVars,
                   trackerVars, sideVars, cameraVars, statsVars, headVars, earVars>>

\* update_typing_activity: typing_active = keys_per_30s > 0, then time.sleep(1)
SamplerFlags ==
    /\ pc = "typing"
    /\ sampler_pc = "flag"
    /\ kb_typing_active' = (kb_keys_per_30s > 0)
    /\ passes' = passes + 1
    /\ sampler_pc' = "sleep"
    /\ UNCHANGED <<pc, keystrokes_detected, kb_keys_per_30s, wall_clock,
                   sampler_now, sampler_kept, pressed, pressed_at_len,
                   fusionVars, blinkVars, smootherVars, gazeVars, calibVars,
                   trackerVars, sideVars, cameraVars, statsVars, headVars, earVars>>

\* update_typing_activity: time.sleep(1) returns, the loop starts over
SamplerWakes ==
    /\ pc = "typing"
    /\ sampler_pc = "sleep"
    /\ wall_clock >= sampler_now + 1
    /\ sampler_pc' = "now"
    /\ UNCHANGED <<pc, keystrokes_detected, kb_keys_per_30s, kb_typing_active, wall_clock,
                   sampler_now, sampler_kept, pressed, pressed_at_len, passes,
                   fusionVars, blinkVars, smootherVars, gazeVars, calibVars,
                   trackerVars, sideVars, cameraVars, statsVars, headVars, earVars>>

NextTyping == Tick \/ OnPress \/ SamplerReadsClock \/ SamplerFilters \/ SamplerStores
                   \/ SamplerCounts \/ SamplerFlags \/ SamplerWakes

SpecTyping == InitTyping /\ [][NextTyping]_vars

(***************************************************************************)
(* SpecQuote: check_quote_thresholds called with any sequence of focus      *)
(* scores, from the latch value of a new tracker.                          *)
(***************************************************************************)
MaxChecks == 6

\* focus scores handed to check_quote_thresholds, in 1/100 of a point
QuoteScores == {1500, 3500, 4500, 5500, 7500, 8000, 9000, 9100, 100 * 100}

InitQuote ==
    /\ pc = "quote"
    /\ FusionStart(100 * 100, NoFeatures)
    /\ BlinkStart
    /\ SmootherStart(3)
    /\ GazeStart
    /\ CalibStart
    /\ TrackerStart(2)
    /\ OuterStart

\* the check re-armed the latch: focus_score > last_quote_threshold + 10 after the loop
rearmed(focus_score, last) ==
    LET i == crossed_threshold(focus_score, last)
    IN  focus_score > ((IF i = 0 THEN last ELSE thresholds[i]) + 10) * 100

\* one call check_quote_thresholds(focus_score)
CheckQuote ==
    /\ pc = "quote"
    /\ checks < MaxChecks
    /\ \E focus_score \in QuoteScores :
         LET res == check_quote_thresholds(focus_score, last_quote_threshold)
         IN  /\ quoted' = res[1]
             /\ last_quote_threshold' = res[2]
             /\ quote_score' = focus_score
             /\ latched' = IF rearmed(focus_score, last_quote_threshold) THEN {}
                           ELSE { T \in latched : focus_score < T * 100 }
                                \cup (IF res[1] = 0 THEN {} ELSE {res[1]})
    /\ latch_before' = last_quote_threshold
    /\ latched_before' = latched
    /\ checks' = checks + 1
    /\ UNCHANGED <<pc, fusionVars, blinkVars, smootherVars, gazeVars, calibVars,
                   metrics, session_blink_count, last_update_time, last_sent, frames,
                   frame_blink_updates, rate_time, rate_elapsed, rate_count_in,
                   rate_reset_in, blinks_since_reset, update_interval, prev_update_time,
                   sends, sent_now, frame_start,
                   cameraVars, statsVars, headVars, earVars, typingVars, serviceVars>>

NextQuote == CheckQuote

SpecQuote == InitQuote /\ [][NextQuote]_vars

(***************************************************************************)
(* SpecService: the backend's requests that touch focus_score_history.     *)
(* The service keeps the last 1000 entries in /update-focus-score; the     *)
(* model keeps the last HistoryCap, so that the cap is met within a few    *)
(* requests.  Timestamps are the number of the request.                    *)
(***************************************************************************)
MaxRequests == 5

HistoryCap == 3

\* request.focus_score of /update-focus-score, in points
UpdateValues == {0 - 5, 35, 150}

InitService ==
    /\ pc = "service"
    /\ FusionStart(100 * 100, NoFeatures)
    /\ BlinkStart
    /\ SmootherStart(3)
    /\ GazeStart
    /\ CalibStart
    /\ TrackerStart(2)
    /\ OuterStart

\* focus_score_history[-HistoryCap:]
last_entries(history, n) ==
    IF Len(history) > n THEN SubSeq(history, Len(history) - n + 1, Len(history)) ELSE history

\* GET /motivation?reset=...
GetMotivation ==
    /\ pc = "service"
    /\ requests < MaxRequests
    /\ \E reset \in BOOLEAN :
         LET score   == IF reset THEN 100 ELSE attention_score
             history == IF reset THEN <<>> ELSE focus_score_history
         IN  /\ attention_score' = score
             /\ focus_score_history' =
                    IF history = <<>>
                    THEN <<[timestamp |-> requests, focus_score |-> score]>>
                    ELSE history
    /\ requests' = requests + 1
    /\ UNCHANGED <<pc, session_stats, fusionVars, blinkVars, smootherVars, gazeVars, calibVars,
                   trackerVars, cameraVars, statsVars, headVars, earVars, typingVars, quoteVars>>

\* POST /decrease-attention
DecreaseAttention ==
    /\ pc = "service"
    /\ requests < MaxRequests
    /\ attention_score' = Max(0, attention_score - 15)
    /\ focus_score_history' = Append(focus_score_history,
           [timestamp |-> requests, focus_score |-> Max(0, attention_score - 15)])
    /\ requests' = requests + 1
    /\ UNCHANGED <<pc, session_stats, fusionVars, blinkVars, smootherVars, gazeVars, calibVars,
                   trackerVars, cameraVars, statsVars, headVars, earVars, typingVars, quoteVars>>

\* POST /update-focus-score
UpdateFocusScore ==
    /\ pc = "service"
    /\ requests < MaxRequests
    /\ \E focus_score \in UpdateValues :
         LET clamped == Max(0, Min(100, focus_score))
         IN  /\ attention_score' = clamped
             /\ focus_score_history' =
                    last_entries(Append(focus_score_history,
                                        [timestamp |-> requests, score |-> clamped]),
                                 HistoryCap)
    /\ requests' = requests + 1
    /\ UNCHANGED <<pc, session_stats, fusionVars, blinkVars, smootherVars, gazeVars, calibVars,
                   trackerVars, cameraVars, statsVars, headVars, earVars, typingVars, quoteVars>>

\* POST /reset-focus-session
ResetFocusSession ==
    /\ pc = "service"
    /\ requests < MaxRequests
    /\ focus_score_history' = <<>>
    /\ requests' = requests + 1
    /\ UNCHANGED <<pc, attention_score, session_stats, fusionVars, blinkVars, smootherVars,
                   gazeVars, calibVars, trackerVars, cameraVars, statsVars, headVars, earVars,
                   typingVars, quoteVars>>

\* GET /focus-session-stats: an empty history is answered without the aggregator
GetFocusSessionStats ==
    /\ pc = "service"
    /\ requests < MaxRequests
    /\ session_stats' = IF focus_score_history = <<>>
                        THEN [returned |-> FALSE, raised |-> FALSE, result |-> EmptyDict]
                        ELSE generate_session_stats(focus_score_history)
    /\ requests' = requests + 1
    /\ UNCHANGED <<pc, attention_score, focus_score_history, fusionVars, blinkVars,
                   smootherVars, gazeVars, calibVars, trackerVars, cameraVars, statsVars,
                   headVars, earVars, typingVars, quoteVars>>

NextService == GetMotivation \/ DecreaseAttention \/ UpdateFocusScore \/ ResetFocusSession
                  \/ GetFocusSessionStats

SpecService == InitService /\ [][NextService]_vars

(***************************************************************************)
(* Spec: the tracker loop of FaceFocusTracker.run, frame by frame:         *)
(* initialize_camera, then for every frame process_frame followed by       *)
(* compute_and_update_focus_score.                                         *)
(***************************************************************************)
MaxFrames == 2

\* time.time() when time.perf_counter() reads 0
WallEpoch == 1000

\* perf_counter() at the start of the session
SessionStarts == {3}

\* seconds between the end of one frame's handling and process_frame of the next
FrameGaps == {1, 59}

\* seconds between process_frame and compute_and_update_focus_score of one frame
CallGaps == {0, 1}

\* update_interval: the constructor's default and the command line's default
UpdateIntervals == {2, 20}

EyeBox(outer_x, inner_x, upper_y, lower_y, iris_x, iris_y) ==
    [outer_x |-> outer_x, inner_x |-> inner_x, upper_y |-> upper_y,
     lower_y |-> lower_y, iris_x |-> iris_x, iris_y |-> iris_y]

\* what the tracker reads off one face: eye heights over a width of 1000, the
\* two eye boxes in pixels, and the outcome of solvePnP
Face(eye_height, right_pts, left_pts, pnp_success, euler_x, euler_y) ==
    [left_eye_height |-> eye_height, left_eye_width |-> 1000,
     right_eye_height |-> eye_height, right_eye_width |-> 1000,
     right_pts |-> right_pts, left_pts |-> left_pts,
     pnp_success |-> pnp_success, euler_x |-> euler_x, euler_y |-> euler_y]

NoLandmarks == [pnp_success |-> FALSE]

\* the detector's results for one frame: multi_face_landmarks empty or one face
FrameInputs ==
    { [face |-> FALSE, lm |-> NoLandmarks],
      \* eyes half open, looking straight
      [face |-> TRUE,
       lm |-> Face(250, EyeBox(100, 120, 50, 60, 110, 55), EyeBox(180, 160, 50, 60, 170, 55),
                   TRUE, 5, 0 - 3)],
      \* eyes closed, head pose not solved
      [face |-> TRUE,
       lm |-> Face(170, EyeBox(100, 120, 50, 60, 110, 55), EyeBox(180, 160, 50, 60, 170, 55),
                   FALSE, 0, 0)],
      \* openness in the dead zone, iris at the outer corner, Euler angles past 90
      [face |-> TRUE,
       lm |-> Face(194, EyeBox(100, 120, 50, 60, 102, 55), EyeBox(180, 160, 50, 60, 178, 55),
                   TRUE, 170, 100)],
      \* eye boxes of zero height
      [face |-> TRUE,
       lm |-> Face(0, EyeBox(100, 120, 50, 50, 110, 50), EyeBox(180, 160, 50, 50, 170, 50),
                   TRUE, 0, 0)],
      \* eyes wide open, looking down to one side
      [face |-> TRUE,
       lm |-> Face(360, EyeBox(100, 120, 50, 60, 116, 59), EyeBox(180, 160, 50, 60, 164, 59),
                   TRUE, 0 - 50, 30)] }

\* gaze_calibration_parameters.json when the tracker starts
CalibrationFiles == {MissingFile, MalformedFile} \cup { StoredFile(p) : p \in LoadedProfiles }

InitTracker ==
    /\ pc = "created"
    /\ FusionStart(10000, NoFeatures)
    /\ BlinkStart
    /\ SmootherStart(3)
    /\ GazeStart
    /\ CalibStart
    /\ \E interval \in UpdateIntervals : TrackerStart(interval)
    /\ \E file \in CalibrationFiles, force \in BOOLEAN : CameraStart(file, force)
    /\ StatsStart
    /\ HeadStart
    /\ EarStart
    /\ TypingStart
    /\ SideStart

\* run: initialize_camera succeeds (with --calibrate the profile calibrate_user
\* derived and wrote to the file, otherwise what load_calibration yields or the
\* built-in profile); the session clock and the blink timer start
InitializeCamera ==
    /\ pc = "created"
    /\ IF force_calibrate
       THEN \E profile \in LoadedProfiles :
               /\ cfg' = profile
               /\ calibration_file' = StoredFile(profile)
       ELSE /\ cfg' = profile_without_calibration(calibration_file)
            /\ UNCHANGED calibration_file
    /\ \E start \in SessionStarts :
          /\ now' = start
          /\ blink_state' = [blink_state EXCEPT !.last_reset_time = start]
    /\ smoother_alpha' = 3
    /\ smoother_state' = <<>>
    /\ init_outcome' = "ok"
    /\ pc' = "read"
    /\ UNCHANGED <<fusionVars, calibVars, trackerVars, gaze_label, last_vec,
                   sm_old, sm_sample, updates, force_calibrate,
                   blink_detected, last_openness, feeds, closed_episode, ever_closed,
                   expect_signal, expected_blinks, blink_before, statsVars, headVars, earVars, typingVars,
                   sideVars>>

\* run: initialize_camera returns False because the source cannot be opened
CameraFailed ==
    /\ pc = "created"
    /\ init_outcome' = "no_source"
    /\ pc' = "stopped"
    /\ UNCHANGED <<fusionVars, blinkVars, smootherVars, gazeVars, calibVars, trackerVars,
                   calibration_file, force_calibrate, statsVars, headVars, earVars, typingVars,
                   sideVars>>

\* run: initialize_camera returns False because calibrate_user raised (fewer than
\* five poses gave a sample)
CalibrationFailed ==
    /\ pc = "created"
    /\ force_calibrate
    /\ init_outcome' = "calibration_raised"
    /\ pc' = "stopped"
    /\ UNCHANGED <<fusionVars, blinkVars, smootherVars, gazeVars, calibVars, trackerVars,
                   calibration_file, force_calibrate, statsVars, headVars, earVars, typingVars,
                   sideVars>>

\* either eye box of the face has zero width or zero height
degenerate_eye_box(lm) ==
    \/ lm.right_pts.inner_x = lm.right_pts.outer_x
    \/ lm.right_pts.lower_y = lm.right_pts.upper_y
    \/ lm.left_pts.inner_x = lm.left_pts.outer_x
    \/ lm.left_pts.lower_y = lm.left_pts.upper_y

\* a plausible slip: the face-absent branch also drops the blink in progress
ProcessFrameNoFace_drops_blink(t) ==
    LET cleared == [blink_state EXCEPT !.blink_in_progress = FALSE,
                                       !.eyes_closed_start_time = None]
        rc == rate_computation(cleared, t)
    IN  /\ gaze_label' = "Away"
        /\ blink_state' = rc.blink_state
        /\ RateNoted(blink_state, rc.blink_state, t, FALSE)
        /\ metrics' = [face_present |-> FALSE, eyes_open_ratio |-> 0,
                       eyes_closed_duration |-> 0, gaze_direction |-> "Away",
                       gaze_away_ratio |-> Unit, head_pitch |-> 0, head_yaw |-> 0,
                       blink_rate |-> rc.blink_rate, landmarks |-> NoLandmarks]
        /\ frame_blink_updates' = 0
        /\ pc' = "processed"
        /\ UNCHANGED <<smootherVars, cfg, last_vec, session_blink_count,
                       blink_detected, last_openness, feeds, closed_episode, ever_closed,
                       expect_signal, expected_blinks, blink_before>>

\* process_frame on a frame without a face
ProcessFrameNoFace(t) ==
    LET rc == rate_computation(blink_state, t)
    IN  /\ gaze_label' = "Away"
        /\ blink_state' = rc.blink_state
        /\ RateNoted(blink_state, rc.blink_state, t, FALSE)
        /\ metrics' = [face_present |-> FALSE, eyes_open_ratio |-> 0,
                       eyes_closed_duration |-> 0, gaze_direction |-> "Away",
                       gaze_away_ratio |-> Unit, head_pitch |-> 0, head_yaw |-> 0,
                       blink_rate |-> rc.blink_rate, landmarks |-> NoLandmarks]
        /\ frame_blink_updates' = 0
        /\ pc' = "processed"
        /\ UNCHANGED <<smootherVars, cfg, last_vec, session_blink_count,
                       blink_detected, last_openness, feeds, closed_episode, ever_closed,
                       expect_signal, expected_blinks, blink_before>>

\* process_frame on a frame with a face
ProcessFrameFace(lm, t) ==
    LET raw_vec      == raw_gaze_vector(lm.right_pts, lm.left_pts)
        smoothed_vec == GazeSmoother_update(smoother_alpha, smoother_state, raw_vec)
        label        == gaze_vector_to_label(cfg, smoothed_vec)
        ratio        == normalize_ear(compute_average_ear(lm), 1500, 3500)
        r            == blink_update(blink_state, ratio, t)
        stored       == blink_stored(blink_state, r)
        rc           == rate_computation(stored, t)
        head         == head_pitch_yaw(lm)
    IN  /\ SmootherUpdated(raw_vec)
        /\ last_vec' = smoothed_vec
        /\ UNCHANGED cfg
        /\ IF label = "KeyError"
           THEN \* the lookup raises out of process_frame and out of run
                /\ pc' = "crashed"
                /\ UNCHANGED <<gaze_label, blink_state, blink_detected, last_openness, feeds,
                               closed_episode, ever_closed, expect_signal, expected_blinks,
                               blink_before,
                               metrics, session_blink_count, frame_blink_updates, rate_time,
                               rate_elapsed, rate_count_in, rate_reset_in, blinks_since_reset>>
           ELSE /\ pc' = "processed"
                /\ gaze_label' = label
                /\ blink_state' = rc.blink_state
                /\ blink_detected' = r.blink_detected
                /\ FeedNoted(ratio)
                /\ RateNoted(stored, rc.blink_state, t, r.blink_detected)
                /\ session_blink_count' =
                       IF r.blink_detected THEN session_blink_count + 1 ELSE session_blink_count
                /\ frame_blink_updates' = 1
                /\ metrics' = [face_present |-> TRUE, eyes_open_ratio |-> ratio,
                               eyes_closed_duration |-> r.eyes_closed_duration,
                               gaze_direction |-> label,
                               gaze_away_ratio |-> IF label = "Center" THEN 0 ELSE Unit,
                               head_pitch |-> head[1], head_yaw |-> head[2],
                               blink_rate |-> rc.blink_rate, landmarks |-> lm]

\* run: cap.read() returns a frame and process_frame handles it
ProcessFrame ==
    /\ pc = "read"
    /\ frames < MaxFrames
    /\ \E fr \in FrameInputs, gap \in FrameGaps :
          /\ now' = now + gap
          /\ frame_start' = [face |-> fr.face,
                             degenerate |-> fr.face /\ degenerate_eye_box(fr.lm),
                             blink_state |-> blink_state,
                             smoother_state |-> smoother_state]
          /\ IF fr.face THEN ProcessFrameFace(fr.lm, now + gap)
                        ELSE ProcessFrameNoFace(now + gap)
    /\ frames' = frames + 1
    /\ UNCHANGED <<fusionVars, calibVars, last_update_time, last_quote_threshold,
                   last_sent, quoted, update_interval, prev_update_time, sends, sent_now,
                   outerVars>>

\* compute_focus_score_with_landmarks: the features fused for a frame with landmarks
enhanced_features(lm, ratio, r, rate) ==
    [face_present |-> metrics.face_present,
     eyes_open_ratio |-> ratio, eyes_closed_duration |-> r.eyes_closed_duration,
     gaze_direction |-> metrics.gaze_direction, gaze_away_ratio |-> metrics.gaze_away_ratio,
     head_pitch |-> head_pitch_yaw(lm)[1], head_yaw |-> head_pitch_yaw(lm)[2],
     blink_rate |-> rate, keys_per_30s |-> 0, typing_active |-> FALSE]

\* compute_and_update_focus_score: the features of the fallback call
fallback_features ==
    [face_present |-> metrics.face_present,
     eyes_open_ratio |-> metrics.eyes_open_ratio,
     eyes_closed_duration |-> metrics.eyes_closed_duration,
     gaze_direction |-> metrics.gaze_direction, gaze_away_ratio |-> metrics.gaze_away_ratio,
     head_pitch |-> metrics.head_pitch, head_yaw |-> metrics.head_yaw,
     blink_rate |-> metrics.blink_rate, keys_per_30s |-> 0, typing_active |-> FALSE]

\* a plausible slip: the send made for every frame, the interval never consulted
SendUpdate_every_frame(new_focus_score, wall) ==
    /\ last_sent' = new_focus_score
    /\ last_update_time' = wall
    /\ prev_update_time' = last_update_time
    /\ sends' = sends + 1
    /\ sent_now' = TRUE
    /\ quoted' = check_quote_thresholds(new_focus_score, last_quote_threshold)[1]
    /\ last_quote_threshold' = check_quote_thresholds(new_focus_score, last_quote_threshold)[2]

\* compute_and_update_focus_score, the part after the score is stored: the send
\* to the backend and the quote check, both behind the update interval
SendUpdate(new_focus_score, wall) ==
    IF wall - last_update_time >= update_interval
    THEN /\ last_sent' = new_focus_score
         /\ last_update_time' = wall
         /\ prev_update_time' = last_update_time
         /\ sends' = sends + 1
         /\ sent_now' = TRUE
         /\ quoted' = check_quote_thresholds(new_focus_score, last_quote_threshold)[1]
         /\ last_quote_threshold' = check_quote_thresholds(new_focus_score, last_quote_threshold)[2]
    ELSE /\ quoted' = 0
         /\ sent_now' = FALSE
         /\ UNCHANGED <<last_sent, last_update_time, last_quote_threshold,
                        prev_update_time, sends>>

\* compute_and_update_focus_score with landmarks: compute_enhanced_face_metrics
\* runs the blink transition and the rate computation on blink_state again
ComputeWithLandmarks(t) ==
    LET lm     == metrics.landmarks
        ratio  == normalize_ear(compute_average_ear(lm), 1500, 3500)
        r      == blink_update(blink_state, ratio, t)
        stored == blink_stored(blink_state, r)
        rc     == rate_computation(stored, t)
        f      == enhanced_features(lm, ratio, r, rc.blink_rate)
    IN  /\ blink_state' = rc.blink_state
        /\ blink_detected' = r.blink_detected
        /\ FeedNoted(ratio)
        /\ RateNoted(stored, rc.blink_state, t, r.blink_detected)
        /\ frame_blink_updates' = frame_blink_updates + 1
        /\ ScoreCall(f)
        /\ SendUpdate(compute_focus_score(f, current_focus_score), WallEpoch + t)

\* compute_and_update_focus_score without landmarks
ComputeFallback(t) ==
    /\ ScoreCall(fallback_features)
    /\ SendUpdate(compute_focus_score(fallback_features, current_focus_score), WallEpoch + t)
    /\ UNCHANGED <<blink_state, blink_detected, last_openness, feeds, closed_episode,
                   ever_closed, expect_signal, expected_blinks, blink_before, frame_blink_updates,
                   rate_time, rate_elapsed, rate_count_in, rate_reset_in, blinks_since_reset>>

\* run: compute_and_update_focus_score(metrics, landmarks_array, frame_shape)
ComputeAndUpdate ==
    /\ pc = "processed"
    /\ \E gap \in CallGaps :
          /\ now' = now + gap
          /\ IF metrics.face_present THEN ComputeWithLandmarks(now + gap)
                                     ELSE ComputeFallback(now + gap)
    /\ pc' = "read"
    /\ UNCHANGED <<calls, smootherVars, gazeVars, calibVars, metrics, session_blink_count,
                   frames, update_interval, frame_start, outerVars>>

\* run: the stream ends or ESC is pressed
Stop ==
    /\ pc = "read"
    /\ pc' = "stopped"
    /\ UNCHANGED <<fusionVars, blinkVars, smootherVars, gazeVars, calibVars, trackerVars, outerVars>>

Next == InitializeCamera \/ CameraFailed \/ CalibrationFailed \/ ProcessFrame
           \/ ComputeAndUpdate \/ Stop

Spec == InitTracker /\ [][Next]_vars

(***************************************************************************)
(* Claims on the fusion engine                                             *)
(***************************************************************************)

\* C1: every result of compute_focus_score for valid inputs and a prev_score
\* in [0,100] is in [0,100]; current_focus_score, which starts in that range
\* and is only assigned such results, stays in [0,100].
C1_ScoreWithinBounds ==
    /\ current_focus_score >= 0
    /\ current_focus_score <= 100 * 100

\* a call in which the bonus would have carried the score past 100
C1_Witness ==
    /\ calls > 0
    /\ bonus_applies(last_smoothed, prev_score)
    /\ last_smoothed + 500000 > 100 * 1000000
    /\ current_focus_score = 100 * 100

\* C2: the blended score of a call, before the bonus step, lies between
\* prev_score and raw_score, no further from prev_score than raw_score is, and
\* at most 20 points away when improving, 15 points otherwise.
C2_SmoothingBound ==
    calls > 0 =>
        LET p == prev_score * 10000
            r == last_raw * 100
            d == Abs(last_smoothed - p)
        IN  /\ Min(p, r) <= last_smoothed
            /\ last_smoothed <= Max(p, r)
            /\ d <= Abs(r - p)
            /\ (r > p => d <= 20 * 1000000)
            /\ (r <= p => d <= 15 * 1000000)

\* an improving call that moves the score by more than 15 points
C2_Witness ==
    /\ calls > 0
    /\ last_raw > prev_score * 100
    /\ last_smoothed - prev_score * 10000 > 15 * 1000000

\* C3 as stated: fed the same feature set repeatedly, the score never passes
\* that feature set's raw_score, from either side.
C3_NeverOvershoots ==
    pc = "repeated" =>
        /\ (start_score * 100 <= last_raw => current_focus_score * 100 <= last_raw)
        /\ (start_score * 100 >= last_raw => current_focus_score * 100 >= last_raw)

\* C3 amended: the score never passes raw_score from below as long as no call
\* of the run has added the sustained bonus, and then each call leaves it no
\* further from raw_score than it was; it never passes raw_score from above.
C3_NeverOvershootsWithoutBonus ==
    pc = "repeated" =>
        /\ (start_score * 100 <= last_raw /\ ~bonus_applied
                => current_focus_score * 100 <= last_raw)
        /\ (start_score * 100 >= last_raw => current_focus_score * 100 >= last_raw)
        /\ (~bonus_applied
                => Abs(current_focus_score * 100 - last_raw) <= Abs(prev_score * 100 - last_raw))

\* a run from below that has moved and sits right under a raw_score it has not passed
C3_Witness ==
    /\ pc = "repeated"
    /\ ~bonus_applied
    /\ start_score * 100 < last_raw
    /\ current_focus_score > start_score
    /\ last_raw - current_focus_score * 100 < 10000

(***************************************************************************)
(* Claims on the blink state machine                                       *)
(***************************************************************************)

\* C4: a completed blink is signalled, and blink_count raised by one, exactly
\* on a value > 0.25 that ends a closed episode (a value < 0.20 since the last
\* value > 0.25); with no value below 0.20 there is no blink at all, and a run
\* of closed values gives one blink.
C4_BlinkHysteresis ==
    /\ blink_detected = expect_signal
    /\ blink_state.blink_count = expected_blinks
    /\ (~ever_closed => blink_state.blink_count = 0)

\* an open value has just ended the first closed episode: one blink, signalled now
C4_Witness ==
    /\ feeds >= 3
    /\ last_openness > 2500
    /\ expect_signal
    /\ blink_detected
    /\ blink_state.blink_count = 1

\* C5: a positive closed duration implies a blink in progress with its
\* closing timestamp set.
C5_ClosedDurationImpliesInProgress ==
    blink_state.eyes_closed_duration > 0 =>
        /\ blink_state.blink_in_progress
        /\ blink_state.eyes_closed_start_time # None

\* the duration kept growing through a dead-zone frame
C5_Witness ==
    /\ blink_state.eyes_closed_duration > 0
    /\ last_openness >= 2000
    /\ last_openness <= 2500
    /\ blink_state.blink_in_progress

(***************************************************************************)
(* Claims on gaze smoothing, classification and calibration                *)
(***************************************************************************)

\* C8: the first vector given to GazeSmoother.update becomes the state as it
\* is; every later one sets state = alpha*sample + (1-alpha)*old state; with
\* alpha = 1 the state is always the latest sample.
C8_SmootherUpdate ==
    /\ (updates = 1 => smoother_state = sm_sample)
    /\ (updates > 1 =>
            \A i \in 1..2 :
                10 * smoother_state[i] =
                    smoother_alpha * sm_sample[i] + (10 - smoother_alpha) * sm_old[i])
    /\ (updates >= 1 /\ smoother_alpha = 10 => smoother_state = sm_sample)

\* a second or later update with alpha < 1 whose result is a proper blend
C8_Witness ==
    /\ updates > 1
    /\ smoother_alpha = 3
    /\ smoother_state # sm_sample
    /\ smoother_state # sm_old

\* C9 as stated: every vector left of the left boundary gets the left-boundary
\* label ("Right" in the source) whatever dy is, and every vector gets exactly
\* one of the five labels.
C9_LeftFirstAndOneLabel ==
    pc = "classified" =>
        /\ (last_vec[1] < cfg["left_thresh"] => gaze_label = "Right")
        /\ gaze_label \in Labels

\* C9 on the profiles that hold all four thresholds: the first matching rule,
\* in the order left, right, top, bottom, decides the label.
C9_PriorityWithAllThresholds ==
    (pc = "classified" /\ "top_thresh" \in DOMAIN cfg) =>
        LET dx == last_vec[1]
            dy == last_vec[2]
        IN  /\ (dx < cfg["left_thresh"] => gaze_label = "Right")
            /\ (dx >= cfg["left_thresh"] /\ dx > cfg["right_thresh"] => gaze_label = "Left")
            /\ (dx >= cfg["left_thresh"] /\ dx <= cfg["right_thresh"] /\ dy < cfg["top_thresh"]
                    => gaze_label = "Down")
            /\ (dx >= cfg["left_thresh"] /\ dx <= cfg["right_thresh"] /\ dy >= cfg["top_thresh"]
                    /\ dy > cfg["down_thresh"] => gaze_label = "Up")
            /\ (dx >= cfg["left_thresh"] /\ dx <= cfg["right_thresh"] /\ dy >= cfg["top_thresh"]
                    /\ dy <= cfg["down_thresh"] => gaze_label = "Center")
            /\ gaze_label \in Labels

\* C10 as stated: with equal up and down medians v, the vertical thresholds
\* are v - 0.05 and v + 0.05.
C10_BandCenteredOnSample ==
    (calib_status = "done" /\ vert_vals[4] = vert_vals[5]) =>
        /\ cfg["down_thresh"] - cfg["top_thresh"] = 1000
        /\ cfg["top_thresh"] = vert_vals[4] - 500
        /\ cfg["down_thresh"] = vert_vals[4] + 500

\* C10 amended: with equal up and down medians v, 0.05 <= v <= 0.95, the
\* vertical thresholds differ by exactly 0.10 and are centered on the center
\* pose's vertical median.
C10_BandCenteredOnCenterPose ==
    (/\ calib_status = "done"
     /\ vert_vals[4] = vert_vals[5]
     /\ vert_vals[4] >= 500
     /\ vert_vals[4] <= Unit - 500) =>
        /\ cfg["down_thresh"] - cfg["top_thresh"] = 1000
        /\ cfg["top_thresh"] = vert_vals[1] - 500
        /\ cfg["down_thresh"] = vert_vals[1] + 500

\* a finished calibration with equal up and down medians away from the center median
C10_Witness ==
    /\ calib_status = "done"
    /\ vert_vals[4] = vert_vals[5]
    /\ vert_vals[4] >= 500
    /\ vert_vals[4] <= Unit - 500
    /\ vert_vals[1] # vert_vals[4]

(***************************************************************************)
(* Claims on the tracker loop                                              *)
(***************************************************************************)

\* C6: the blink counter and its timer are reset every 60 seconds.  After every
\* blink-rate computation (process_frame and compute_enhanced_face_metrics end
\* with one, at time rate_time): if at least 60 seconds had elapsed since
\* last_reset_time then blink_count = 0 and last_reset_time = rate_time,
\* otherwise both are as the computation found them; so less than 60 seconds
\* separate rate_time from last_reset_time, and blink_count is the number of
\* blinks signalled since last_reset_time last changed.
C6_CounterResetEverySixtySeconds ==
    rate_time # None =>
        /\ rate_elapsed >= 60 =>
              /\ blink_state.blink_count = 0
              /\ blink_state.last_reset_time = rate_time
        /\ rate_elapsed < 60 =>
              /\ blink_state.blink_count = rate_count_in
              /\ blink_state.last_reset_time = rate_reset_in
        /\ rate_time - blink_state.last_reset_time < 60
        /\ blink_state.blink_count = blinks_since_reset

\* a reset that cleared a counter holding a blink
C6_Witness ==
    /\ rate_time # None
    /\ rate_elapsed >= 60
    /\ rate_count_in > 0
    /\ blink_state.blink_count = 0
    /\ blink_state.last_reset_time = rate_time

\* C7: for each face-present frame handled by the loop (process_frame followed
\* by compute_and_update_focus_score) update_blink_metrics is applied to the
\* session blink state exactly once.
C7_BlinkStateMutatedOncePerFrame ==
    (pc = "read" /\ frames > 0 /\ metrics.face_present) => frame_blink_updates = 1

(***************************************************************************)
(* Claims on camera initialisation and the calibration file                *)
(***************************************************************************)

\* C11: a missing calibration file is never fatal.  load_calibration returns
\* the defaults 0.35, 0.65, 0.3, 0.7 for it without raising; a tracker started
\* without --calibrate whose source opens finishes initialize_camera with that
\* profile, and no frame handled with it ends the loop with an exception.
C11_MissingFileNotFatal ==
    /\ load_calibration(MissingFile).raised = ""
    /\ load_calibration(MissingFile).cfg =
          [left_thresh |-> 3500, right_thresh |-> 6500, top_thresh |-> 3000, down_thresh |-> 7000]
    /\ (/\ init_outcome \notin {"none", "no_source"}
        /\ ~force_calibrate
        /\ calibration_file.status = "missing") =>
            /\ init_outcome = "ok"
            /\ cfg = [left_thresh |-> 3500, right_thresh |-> 6500,
                      top_thresh |-> 3000, down_thresh |-> 7000]
            /\ pc # "crashed"

\* a tracker that started on a missing file and has handled two frames
C11_Witness ==
    /\ init_outcome = "ok"
    /\ ~force_calibrate
    /\ calibration_file.status = "missing"
    /\ pc = "read"
    /\ frames = 2

(***************************************************************************)
(* Claims on the session statistics                                        *)
(***************************************************************************)

\* C12: generate_session_stats on an empty history returns the empty dict and
\* does not raise.
C12_EmptyHistoryGivesEmptyDict ==
    (pc = "reported" /\ focus_data = <<>>) =>
        /\ stats.returned
        /\ ~stats.raised
        /\ DOMAIN stats.result = {}

\* generate_session_stats has been called on the empty history
C12_Witness ==
    /\ pc = "reported"
    /\ focus_data = <<>>
    /\ stats.returned

\* C13: recovery_moments_est is the number of positions i of the successive
\* deltas with delta[i] <= -8 for which some later position j > i has
\* delta[j] >= 8; a drop counts once, a gain may serve several drops.
C13_RecoveryCount ==
    (pc = "reported" /\ focus_data # <<>>) =>
        LET n == Len(focus_data)
            delta(i) == IF i = 1 THEN 0
                        ELSE focus_data[i].focus_score - focus_data[i - 1].focus_score
        IN  stats.result.recovery_moments_est =
                Cardinality({ i \in 1..n : /\ delta(i) <= 0 - 8
                                            /\ \E j \in (i + 1)..n : delta(j) >= 8 })

\* two drops of 8 or more followed by one single gain of 8 or more: both count
C13_Witness ==
    /\ pc = "reported"
    /\ Len(focus_data) = 4
    /\ focus_data[2].focus_score - focus_data[1].focus_score <= 0 - 8
    /\ focus_data[3].focus_score - focus_data[2].focus_score <= 0 - 8
    /\ focus_data[4].focus_score - focus_data[3].focus_score >= 8
    /\ stats.result.recovery_moments_est = 2

\* C14 as stated: for a non-empty history max_focus / min_focus are the largest
\* / smallest score with the timestamp of a sample attaining it, and
\* largest_single_gain / largest_single_drop are the largest / the most
\* negative successive change score[i+1] - score[i].
C14_ExtremesAndLargestChanges ==
    (pc = "reported" /\ focus_data # <<>>) =>
        LET n == Len(focus_data)
            score(i) == focus_data[i].focus_score
            change(i) == score(i + 1) - score(i)
            r == stats.result
        IN  /\ \A i \in 1..n : score(i) <= r.max_focus /\ score(i) >= r.min_focus
            /\ \E i \in 1..n : score(i) = r.max_focus /\ focus_data[i].timestamp = r.max_focus_time
            /\ \E i \in 1..n : score(i) = r.min_focus /\ focus_data[i].timestamp = r.min_focus_time
            /\ n >= 2 =>
                  /\ \E i \in 1..(n - 1) : change(i) = r.largest_single_gain
                  /\ \A i \in 1..(n - 1) : change(i) <= r.largest_single_gain
                  /\ \E i \in 1..(n - 1) : change(i) = r.largest_single_drop
                  /\ \A i \in 1..(n - 1) : change(i) >= r.largest_single_drop

\* C14 amended: as above for max_focus and min_focus; largest_single_gain is
\* the largest successive increase, or 0 when no successive change is an
\* increase; largest_single_drop is the most negative successive change, or 0
\* when no successive change is a decrease (a one-sample history gives 0, 0).
C14_ExtremesAndLargestChangesOrZero ==
    (pc = "reported" /\ focus_data # <<>>) =>
        LET n == Len(focus_data)
            score(i) == focus_data[i].focus_score
            change(i) == score(i + 1) - score(i)
            r == stats.result
        IN  /\ \A i \in 1..n : score(i) <= r.max_focus /\ score(i) >= r.min_focus
            /\ \E i \in 1..n : score(i) = r.max_focus /\ focus_data[i].timestamp = r.max_focus_time
            /\ \E i \in 1..n : score(i) = r.min_focus /\ focus_data[i].timestamp = r.min_focus_time
            /\ \A i \in 1..(n - 1) : change(i) <= r.largest_single_gain
            /\ \A i \in 1..(n - 1) : change(i) >= r.largest_single_drop
            /\ \/ r.largest_single_gain = 0
               \/ \E i \in 1..(n - 1) : change(i) = r.largest_single_gain
            /\ \/ r.largest_single_drop = 0
               \/ \E i \in 1..(n - 1) : change(i) = r.largest_single_drop
            /\ r.largest_single_gain >= 0
            /\ r.largest_single_drop <= 0

\* a history that only falls: the reported gain is 0, the drop is a real change
C14_Witness ==
    /\ pc = "reported"
    /\ Len(focus_data) = 3
    /\ focus_data[2].focus_score < focus_data[1].focus_score
    /\ focus_data[3].focus_score < focus_data[2].focus_score
    /\ stats.result.largest_single_gain = 0
    /\ stats.result.largest_single_drop < 0
    /\ stats.result.max_focus_time = focus_data[1].timestamp

(***************************************************************************)
(* Claims on frames without a face and frames with a degenerate eye box    *)
(***************************************************************************)

\* C15: a frame without a face short-circuits the per-frame features:
\* process_frame reports eye openness 0, closed duration 0, gaze "Away", pitch
\* 0 and yaw 0; neither the blink state machine nor the gaze smoother is
\* stepped (blink_in_progress, eyes_closed_start_time and the smoother state
\* are as the frame found them), and the score is fused from those defaults.
C15_NoFaceShortCircuits ==
    (pc \in {"processed", "read"} /\ frames > 0 /\ ~frame_start.face) =>
        /\ ~metrics.face_present
        /\ metrics.eyes_open_ratio = 0
        /\ metrics.eyes_closed_duration = 0
        /\ metrics.gaze_direction = "Away"
        /\ metrics.head_pitch = 0
        /\ metrics.head_yaw = 0
        /\ frame_blink_updates = 0
        /\ blink_state.blink_in_progress = frame_start.blink_state.blink_in_progress
        /\ blink_state.eyes_closed_start_time = frame_start.blink_state.eyes_closed_start_time
        /\ smoother_state = frame_start.smoother_state
        /\ pc = "read" =>
              /\ ~feat.face_present
              /\ feat.eyes_open_ratio = 0
              /\ feat.eyes_closed_duration = 0
              /\ feat.gaze_direction = "Away"
              /\ feat.head_pitch = 0
              /\ feat.head_yaw = 0

\* a frame without a face handled while a blink is in progress and the smoother holds a state
C15_Witness ==
    /\ pc = "read"
    /\ frames = 2
    /\ ~frame_start.face
    /\ blink_state.blink_in_progress
    /\ blink_state.eyes_closed_start_time # None
    /\ smoother_state # <<>>

\* C16: a frame whose eye box is degenerate (zero width or zero height) is no
\* new sample: the smoothed gaze state after the frame is the state before it.
C16_DegenerateEyeBoxIsNoSample ==
    (pc \in {"processed", "read"} /\ frames > 0 /\ frame_start.degenerate) =>
        smoother_state = frame_start.smoother_state

(***************************************************************************)
(* Claims on head pose and EAR normalisation                               *)
(***************************************************************************)

\* C17 as stated: for every Euler angle in [-180, 180] the pitch and the yaw
\* returned by estimate_head_orientation lie in (-90, 90].
C17_WrappedIntoHalfOpenInterval ==
    pc = "estimated" =>
        \A i \in 1..2 : head_out[i] > 0 - 90 /\ head_out[i] <= 90

\* C17 amended: the pitch and the yaw returned lie in the closed interval
\* [-90, 90], differ from the Euler angle by 0 or by 180, and -90 is returned
\* for the Euler angle -90 and for no other.
C17_WrappedIntoClosedInterval ==
    pc = "estimated" =>
        \A i \in 1..2 :
            /\ head_out[i] >= 0 - 90
            /\ head_out[i] <= 90
            /\ head_out[i] - euler_in[i] \in {0 - 180, 0, 180}
            /\ (head_out[i] = 0 - 90) <=> (euler_in[i] = 0 - 90)

\* the Euler angle -90 itself, and an angle beyond 90 in the same call
C17_Witness ==
    /\ pc = "estimated"
    /\ euler_in[1] = 0 - 90
    /\ head_out[1] = 0 - 90
    /\ euler_in[2] = 135
    /\ head_out[2] = 0 - 45

\* C19: normalize_ear maps the open threshold to 1.0 and the closed threshold
\* to 0.0, gives a result in [0, 1] for every input (0 below the closed
\* threshold, 1 above the open one), and returns 0 when the thresholds are equal.
C19_NormalizeEar ==
    pc = "normalized" =>
        LET ear    == ear_in.ear
            closed == ear_in.closed_threshold
            open   == ear_in.open_threshold
        IN  /\ ear_out >= 0
            /\ ear_out <= Unit
            /\ closed = open => ear_out = 0
            /\ closed < open =>
                  /\ ear = open => ear_out = Unit
                  /\ ear = closed => ear_out = 0
                  /\ ear < closed => ear_out = 0
                  /\ ear > open => ear_out = Unit

\* an EAR above the open threshold, clipped to 1.0
C19_Witness ==
    /\ pc = "normalized"
    /\ ear_in.closed_threshold < ear_in.open_threshold
    /\ ear_in.ear > ear_in.open_threshold
    /\ ear_out = Unit

(***************************************************************************)
(* Claims on the sends to the backend                                      *)
(***************************************************************************)

\* C18: a score is sent only when at least update_interval seconds have passed
\* since the previous send, so two consecutive sends are at least
\* update_interval apart; a frame that does not send is less than
\* update_interval after the last send; the value sent is the
\* current_focus_score just computed.
C18_OneSendPerInterval ==
    /\ sends >= 2 => last_update_time - prev_update_time >= update_interval
    /\ (pc = "read" /\ frames > 0 /\ sent_now) =>
          /\ last_sent = current_focus_score
          /\ last_update_time = WallEpoch + now
    /\ (pc = "read" /\ frames > 0 /\ ~sent_now) =>
          /\ sends >= 1
          /\ (WallEpoch + now) - last_update_time < update_interval

\* two sends with the longer interval, a full interval apart
C18_Witness ==
    /\ pc = "read"
    /\ sends = 2
    /\ update_interval = 20
    /\ last_update_time - prev_update_time >= 20

(***************************************************************************)
(* Claims on the typing-activity snapshot                                  *)
(***************************************************************************)

\* C20: under every interleaving of on_press and the sampling loop no
\* keystroke of the trailing 30 seconds is lost by the pruning: when a
\* sampling pass has finished, keys_per_30s is the number of keystrokes
\* pressed (up to the moment the pass read the length) that lie within 30
\* seconds of the pass's now, and typing_active is keys_per_30s > 0.
C20_SnapshotCountsEveryKeystroke ==
    sampler_pc = "sleep" =>
        /\ kb_keys_per_30s =
              Cardinality({ i \in 1..pressed_at_len : sampler_now - pressed[i] <= 30 })
        /\ kb_typing_active = (kb_keys_per_30s > 0)

(***************************************************************************)
(* Claims on the dead zone, the quote latch, the service's history and     *)
(* the calibration profile                                                 *)
(***************************************************************************)

\* C21: a frame with openness in the dead zone [0.20, 0.25] causes no blink
\* state transition: blink_in_progress, blink_count and the closing timestamp
\* are as before the call and no blink is signalled; closed_duration is now
\* minus the existing closing timestamp when one is set, otherwise as before.
C21_DeadZoneNoTransition ==
    (feeds > 0 /\ last_openness >= 2000 /\ last_openness <= 2500) =>
        /\ blink_state.blink_in_progress = blink_before.blink_in_progress
        /\ blink_state.blink_count = blink_before.blink_count
        /\ blink_state.eyes_closed_start_time = blink_before.eyes_closed_start_time
        /\ ~blink_detected
        /\ blink_state.eyes_closed_duration =
              IF blink_before.eyes_closed_start_time # None
              THEN now - blink_before.eyes_closed_start_time
              ELSE blink_before.eyes_closed_duration

\* a dead-zone value fed while the eyes are closed: the duration grew, nothing else moved
C21_Witness ==
    /\ feeds >= 2
    /\ last_openness = 2200
    /\ blink_before.blink_in_progress
    /\ blink_before.eyes_closed_start_time # None
    /\ blink_state.eyes_closed_duration > blink_before.eyes_closed_duration
    /\ blink_state.blink_in_progress

\* C22: once check_quote_thresholds has triggered a quote for threshold T it
\* triggers no further quote for T on later checks while the score stays below
\* T, until a check has re-armed the latch.
C22_QuoteOncePerCrossing ==
    (checks > 0 /\ quoted # 0) => quoted \notin latched_before

\* C24: when the score is below a threshold lower than the one a quote was
\* already triggered at, the check triggers a quote for a lower threshold.
C24_LowerThresholdQuoted ==
    (/\ checks > 0
     /\ latch_before < 100
     /\ \E i \in 1..Len(thresholds) :
            thresholds[i] < latch_before /\ quote_score < thresholds[i] * 100)
    => (quoted # 0 /\ quoted < latch_before)

\* C24, the other way round: whatever the scores, 80 is the only threshold a quote
\* is ever triggered for, and the latch is never below 80
C24_OnlyTopThresholdEverQuoted ==
    /\ quoted \in {0, 80}
    /\ last_quote_threshold \in {80, 100}

\* C23: focus_score_history never holds more entries than the cap of
\* /update-focus-score, whatever the requests.
C23_HistoryAtMostCap ==
    Len(focus_score_history) <= HistoryCap

\* C27: every entry of focus_score_history has the key "focus_score" that
\* generate_session_stats reads, and generate_session_stats never raises on it.
C27_HistoryKeyedForAggregator ==
    /\ \A i \in 1..Len(focus_score_history) : "focus_score" \in DOMAIN focus_score_history[i]
    /\ ~session_stats.raised

\* C25: every label the tracker's classifier passes to the fusion engine for a
\* face-present frame is scored with its categorical base value: centred 1.0,
\* up/down 0.9, left/right 0.8.
C25_LabelsScoredWithBaseValue ==
    (feat.face_present /\ feat.gaze_direction \in Labels) =>
        gaze_map(feat.gaze_direction) =
            IF feat.gaze_direction = "Center" THEN 10000
            ELSE IF feat.gaze_direction \in {"Up", "Down"} THEN 9000
            ELSE 8000

\* C26: whichever way initialize_camera obtained the profile, it holds the four
\* keys gaze_vector_to_label reads, and no frame fails on a missing key.
C26_ProfileHasFourKeys ==
    init_outcome = "ok" =>
        /\ {"left_thresh", "right_thresh", "top_thresh", "down_thresh"} \subseteq DOMAIN cfg
        /\ pc # "crashed"

\* C28: the profile calibrate_user produces is ordered, left_thresh <=
\* right_thresh and top_thresh <= down_thresh, whatever the five medians.
C28_ThresholdsOrdered ==
    calib_status = "done" =>
        /\ cfg["left_thresh"] <= cfg["right_thresh"]
        /\ cfg["top_thresh"] <= cfg["down_thresh"]

\* C28, the horizontal half: left_thresh <= right_thresh on every profile produced
C28_HorizontalOrdered ==
    calib_status = "done" => cfg["left_thresh"] <= cfg["right_thresh"]

\* C30: whenever calibrate_user completes, the thresholds come from exactly
\* five medians, one per pose in the order center, left, right, up, down: the
\* center median anchors both bands and the vertical span is taken from the up
\* and down poses, also when the stream ended during a pose.
C30_FiveMediansInPoseOrder ==
    calib_status = "done" =>
        /\ Len(horiz_vals) = 5
        /\ Len(vert_vals) = 5
        /\ median_pose = <<1, 2, 3, 4, 5>>
        /\ cfg["left_thresh"] + cfg["right_thresh"] = 2 * horiz_vals[1]
        /\ cfg["top_thresh"] + cfg["down_thresh"] = 2 * vert_vals[1]
        /\ LET up   == vert_vals[4]
               down == vert_vals[5]
               lo   == Min(up, down)
           IN  ~isclose(lo, down) =>
                   cfg["down_thresh"] - cfg["top_thresh"] = 2 * ((down - lo) \div 2)

\* a calibration completed although the stream ended during a pose, with a center
\* median that differs from the down pose's
C30_Witness ==
    /\ calib_status = "done"
    /\ stream_ended
    /\ Len(horiz_vals) = 5
    /\ vert_vals[1] # vert_vals[5]
    /\ vert_vals[4] < vert_vals[5]

\* C29: the closed-eye rule is a penalty: the eyes sub-score computed with a
\* closed duration above 3 s is never greater than the eyes sub-score for the
\* same openness with a closed duration of at most 3 s.
C29_ClosedEyeRuleIsPenalty ==
    (calls > 0 /\ feat.eyes_closed_duration > 3) =>
        \A d \in 0..3 :
            eye_score(feat.eyes_open_ratio, feat.eyes_closed_duration)
                <= eye_score(feat.eyes_open_ratio, d)

====
